---- MODULE Spec2Model ----
(***************************************************************************)
(* Market-analysis cache and technical scoring engine of the wallet chat   *)
(* assistant (lib/services/market-intelligence-service.ts).                *)
(*                                                                         *)
(* Numbers.  JavaScript numbers are modelled as exact extended rationals   *)
(* [n, d] with d >= 0: d > 0 is the finite value n/d, [1,0] is +Infinity,  *)
(* [-1,0] is -Infinity and [0,0] is NaN.  Percentages of a market record   *)
(* are integers in units of 1/Scale percent.  Optional fields of the       *)
(* untyped records are <<>> (undefined) or <<v>>.  Time is in milliseconds.*)
(***************************************************************************)
EXTENDS Integers, Sequences, FiniteSets, TLC

\* ------------------------------------------------------------------ bounds
NumCallers == 2      \* concurrent request paths calling getMarketAnalysis
MaxFetches == 2      \* provider fetch rounds started in one run
MaxWindows == 1      \* the clock runs over this many freshness windows
Scale == 2           \* percentages are multiples of 1/Scale
MaxPct == 7          \* |24h percent change| of an enumerated record
MaxVol == 2          \* 24h volumes of an enumerated record
MaxCap == 3          \* market caps of an enumerated batch
MaxBatch == 3        \* records in an enumerated batch
MaxPrice == 3        \* prices and moving averages of an enumerated record
MaxSends == 2        \* handleSendMessage invocations with an input in one run
MaxConfirms == 2     \* confirm actions on a transfer in one run
MaxTimers == 2       \* announcement timers pending at one time

\* ------------------------------------------------- JavaScript value helpers
None == <<>>
Some(x) == <<x>>

\* JS truthiness of an optional number: undefined and 0 are falsy
Truthy(x) == x # None /\ x[1] # 0
\* x || d
OrElse(x, d) == IF Truthy(x) THEN x[1] ELSE d
\* x > n and x < n for an optional x: a comparison with undefined is false
Gt(x, n) == x # None /\ x[1] > n
Lt(x, n) == x # None /\ x[1] < n

Max(a, b) == IF a >= b THEN a ELSE b
Min(a, b) == IF a <= b THEN a ELSE b
Abs(a) == IF a < 0 THEN -a ELSE a

\* extended rationals
Rat(n, d) == [n |-> n, d |-> d]
NaN == Rat(0, 0)
IsNaN(a) == a.n = 0 /\ a.d = 0
IsInf(a) == a.n # 0 /\ a.d = 0
IsFinite(a) == a.d > 0
Sign(k) == IF k > 0 THEN 1 ELSE IF k < 0 THEN -1 ELSE 0
Norm(n, d) == IF d < 0 THEN Rat(-n, -d) ELSE IF d = 0 THEN Rat(Sign(n), 0) ELSE Rat(n, d)
\* a / b, IEEE: x/0 is +-Infinity, 0/0 is NaN, x/Infinity is 0
RDiv(a, b) == Norm(a.n * b.d, a.d * b.n)
RMul(a, b) == Norm(a.n * b.n, a.d * b.d)
RAdd(a, b) ==
    IF IsNaN(a) \/ IsNaN(b) THEN NaN
    ELSE IF IsInf(a) /\ IsInf(b) THEN (IF a.n = b.n THEN a ELSE NaN)
    ELSE IF IsInf(a) THEN a
    ELSE IF IsInf(b) THEN b
    ELSE Rat(a.n * b.d + b.n * a.d, a.d * b.d)
RNeg(a) == Rat(-a.n, a.d)
RSub(a, b) == RAdd(a, RNeg(b))
\* Math.round: the nearest integer, a tie going up; NaN and Infinity unchanged
MathRound(a) == IF a.d = 0 THEN a ELSE Rat((2 * a.n + a.d) \div (2 * a.d), 1)
\* Number(x.toFixed(2)): the nearest multiple of 0.01, a tie going to the
\* larger one; kept in hundredths
ToFixed2(a) == IF a.d = 0 THEN a ELSE Rat((200 * a.n + a.d) \div (2 * a.d), 100)

\* a percentage field (units of 1/Scale) as a number
Pct(k) == Rat(k, Scale)

\* ------------------------------------------------- technical scoring engine
calculateTechnicalSentimentAtOrOver(token) ==
    LET priceChange == token.percentChange24h
        volume == token.volume24h
        prevVolume == OrElse(token.volume24hPrevious, 0)
    IN  IF ~Lt(priceChange, 5 * Scale) /\ priceChange # None /\ Gt(volume, prevVolume)
            THEN "strongly bullish"
        ELSE IF Gt(priceChange, 2 * Scale) /\ Gt(volume, prevVolume) THEN "bullish"
        ELSE IF Lt(priceChange, -5 * Scale) /\ Gt(volume, prevVolume) THEN "strongly bearish"
        ELSE IF Lt(priceChange, -2 * Scale) /\ Gt(volume, prevVolume) THEN "bearish"
        ELSE "neutral"
calculateTechnicalSentiment(token) ==
    LET priceChange == token.percentChange24h
        volume == token.volume24h
        prevVolume == OrElse(token.volume24hPrevious, 0)
    IN  IF Gt(priceChange, 5 * Scale) /\ Gt(volume, prevVolume) THEN "strongly bullish"
        ELSE IF Gt(priceChange, 2 * Scale) /\ Gt(volume, prevVolume) THEN "bullish"
        ELSE IF Lt(priceChange, -5 * Scale) /\ Gt(volume, prevVolume) THEN "strongly bearish"
        ELSE IF Lt(priceChange, -2 * Scale) /\ Gt(volume, prevVolume) THEN "bearish"
        ELSE "neutral"

\* the divisor of gains / (losses || 1), in units of 1/Scale
rsiDivisorNoClamp(token) == Abs(Min(0, OrElse(token.percentChange24h, 0)))
rsiDivisor(token) ==
    LET losses == Abs(Min(0, OrElse(token.percentChange24h, 0)))
    IN  IF losses # 0 THEN losses ELSE Scale

rsiAbsGains(token) ==
    LET gains == Abs(OrElse(token.percentChange24h, 0))
        ratio == RDiv(Pct(gains), Pct(rsiDivisor(token)))
    IN  MathRound(RSub(Rat(100, 1), RDiv(Rat(100, 1), RAdd(Rat(1, 1), ratio))))
calculateRSI(token) ==
    LET gains == Max(0, OrElse(token.percentChange24h, 0))
        ratio == RDiv(Pct(gains), Pct(rsiDivisor(token)))
    IN  MathRound(RSub(Rat(100, 1), RDiv(Rat(100, 1), RAdd(Rat(1, 1), ratio))))

calculateMACD(token) ==
    LET shortTerm == OrElse(token.percentChange24h, 0)
        longTerm == OrElse(token.percentChange7d, 0)
    IN  IF shortTerm > longTerm THEN "bullish" ELSE "bearish"

analyzeMovingAveragesNoDefault(token) ==
    LET price == OrElse(token.price, 0)
        ma50 == OrElse(token.ma50, 0)
        ma200 == OrElse(token.ma200, 0)
    IN  IF price > ma50 /\ ma50 > ma200 THEN "strong uptrend"
        ELSE IF price > ma50 THEN "uptrend"
        ELSE IF price < ma50 /\ ma50 < ma200 THEN "strong downtrend"
        ELSE IF price < ma50 THEN "downtrend"
        ELSE "sideways"
analyzeMovingAverages(token) ==
    LET price == OrElse(token.price, 0)
        ma50 == OrElse(token.ma50, price)
        ma200 == OrElse(token.ma200, price)
    IN  IF price > ma50 /\ ma50 > ma200 THEN "strong uptrend"
        ELSE IF price > ma50 THEN "uptrend"
        ELSE IF price < ma50 /\ ma50 < ma200 THEN "strong downtrend"
        ELSE IF price < ma50 THEN "downtrend"
        ELSE "sideways"

calculateIndicators(token) ==
    [macd |-> calculateMACD(token),
     rsi |-> calculateRSI(token),
     movingAverages |-> analyzeMovingAverages(token)]

SymbolsOf(marketData) == {marketData[i].symbol : i \in DOMAIN marketData}
\* the last record of a symbol: a later assignment to the same key wins
LastOf(marketData, s) ==
    marketData[CHOOSE i \in DOMAIN marketData :
        /\ marketData[i].symbol = s
        /\ \A j \in DOMAIN marketData : marketData[j].symbol = s => j <= i]

generateTechnicalSignals(marketData) ==
    [s \in SymbolsOf(marketData) |->
        [sentiment |-> calculateTechnicalSentiment(LastOf(marketData, s)),
         indicators |-> calculateIndicators(LastOf(marketData, s))]]

RECURSIVE SumOr0(_)
\* values.reduce((sum, v) => sum + (v || 0), 0)
SumOr0(values) ==
    IF values = <<>> THEN 0
    ELSE SumOr0(SubSeq(values, 1, Len(values) - 1)) + OrElse(values[Len(values)], 0)

\* the records calculateDominanceIndex writes an entry for
dominanceGuard(token) == Truthy(token.marketCap)

dominanceShareTruncated(cap, total) ==
    LET x == RMul(RDiv(Rat(OrElse(cap, 0), 1), Rat(total, 1)), Rat(100, 1))
    IN  IF x.d = 0 THEN x ELSE Rat((100 * x.n) \div x.d, 100)
dominanceShare(cap, total) ==
    ToFixed2(RMul(RDiv(Rat(OrElse(cap, 0), 1), Rat(total, 1)), Rat(100, 1)))

calculateDominanceIndex(marketData) ==
    LET total == SumOr0([i \in DOMAIN marketData |-> marketData[i].marketCap])
        kept == {s \in SymbolsOf(marketData) : dominanceGuard(LastOf(marketData, s))}
    IN  [s \in kept |-> dominanceShare(LastOf(marketData, s).marketCap, total)]

\* comparisons of numbers: any comparison with NaN is false
RGt(a, b) == ~IsNaN(a) /\ ~IsNaN(b) /\ a.n * b.d > b.n * a.d
RLt(a, b) == RGt(b, a)

\* marketData.filter(P).length
\* keep[i] tells whether P holds of marketData[i]
CountWhere(marketData, keep) == Cardinality({i \in DOMAIN marketData : keep[i]})
\* marketData.filter(P).map(t => t.symbol)
RECURSIVE SymbolsWhere(_, _)
SymbolsWhere(marketData, keep) ==
    IF marketData = <<>> THEN <<>>
    ELSE LET n == Len(marketData)
             front == SymbolsWhere(SubSeq(marketData, 1, n - 1), keep)
         IN  IF keep[n] THEN Append(front, marketData[n].symbol) ELSE front

extractShortTermTrendsAtOrOver(marketData) ==
    LET changes == [i \in DOMAIN marketData |-> marketData[i].volumeChange24h]
        volume24hChange == RDiv(Pct(SumOr0(changes)), Rat(Len(marketData), 1))
        gainers == CountWhere(marketData,
                       [i \in DOMAIN marketData |-> Gt(marketData[i].percentChange24h, 5 * Scale)])
        losers == CountWhere(marketData,
                      [i \in DOMAIN marketData |-> Lt(marketData[i].percentChange24h, -5 * Scale)])
        threshold == Rat(Len(marketData) * 6, 10)
    IN  (IF RGt(volume24hChange, Rat(20, 1)) THEN <<"High volume spike across markets">> ELSE <<>>)
        \o (IF RLt(volume24hChange, Rat(-20, 1)) THEN <<"Volume declining across markets">> ELSE <<>>)
        \o (IF ~RLt(Rat(gainers, 1), threshold) THEN <<"Broad market rally">> ELSE <<>>)
        \o (IF ~RLt(Rat(losers, 1), threshold) THEN <<"Market-wide correction">> ELSE <<>>)
\* marketData.length * 0.6 is taken exactly: the product is an integer only
\* for lengths that are multiples of 5, where the double is exact too
extractShortTermTrends(marketData) ==
    LET changes == [i \in DOMAIN marketData |-> marketData[i].volumeChange24h]
        volume24hChange == RDiv(Pct(SumOr0(changes)), Rat(Len(marketData), 1))
        gainers == CountWhere(marketData,
                       [i \in DOMAIN marketData |-> Gt(marketData[i].percentChange24h, 5 * Scale)])
        losers == CountWhere(marketData,
                      [i \in DOMAIN marketData |-> Lt(marketData[i].percentChange24h, -5 * Scale)])
        threshold == Rat(Len(marketData) * 6, 10)
    IN  (IF RGt(volume24hChange, Rat(20, 1)) THEN <<"High volume spike across markets">> ELSE <<>>)
        \o (IF RLt(volume24hChange, Rat(-20, 1)) THEN <<"Volume declining across markets">> ELSE <<>>)
        \o (IF RGt(Rat(gainers, 1), threshold) THEN <<"Broad market rally">> ELSE <<>>)
        \o (IF RGt(Rat(losers, 1), threshold) THEN <<"Market-wide correction">> ELSE <<>>)

extractMediumTermTrends(marketData) ==
    LET changes == [i \in DOMAIN marketData |-> marketData[i].percentChange7d]
        avgChange7d == RDiv(Pct(SumOr0(changes)), Rat(Len(marketData), 1))
    IN  (IF RGt(avgChange7d, Rat(10, 1)) THEN <<"Strong bullish week">> ELSE <<>>)
        \o (IF RLt(avgChange7d, Rat(-10, 1)) THEN <<"Bearish weekly trend">> ELSE <<>>)

identifyEmergingTrends(marketData) ==
    LET socialGaining == SymbolsWhere(marketData,
            [i \in DOMAIN marketData |-> Gt(marketData[i].socialMentionsChange24h, 50 * Scale)])
        developmentActive == SymbolsWhere(marketData,
            [i \in DOMAIN marketData |-> Gt(marketData[i].githubActivity24h, 10)])
    IN  (IF Len(socialGaining) > 0
            THEN <<[text |-> "Rising social interest in", symbols |-> socialGaining]>> ELSE <<>>)
        \o (IF Len(developmentActive) > 0
            THEN <<[text |-> "Active development in", symbols |-> developmentActive]>> ELSE <<>>)

analyzeTrends(marketData) ==
    [shortTerm |-> extractShortTermTrends(marketData),
     mediumTerm |-> extractMediumTermTrends(marketData),
     emerging |-> identifyEmergingTrends(marketData)]

\* Array.prototype.sort((a, b) => b.percentChange24h - a.percentChange24h):
\* a stable sort, descending by 24h change, of records that all carry one
RECURSIVE InsertDesc(_, _)
InsertDesc(sorted, t) ==
    IF sorted = <<>> THEN <<t>>
    ELSE IF Head(sorted).percentChange24h[1] >= t.percentChange24h[1]
         THEN <<Head(sorted)>> \o InsertDesc(Tail(sorted), t)
         ELSE <<t>> \o sorted
RECURSIVE SortDesc(_)
SortDesc(marketData) ==
    IF marketData = <<>> THEN <<>>
    ELSE InsertDesc(SortDesc(SubSeq(marketData, 1, Len(marketData) - 1)),
                    marketData[Len(marketData)])

\* generateMarketOverview sorts the array it is given in place
overviewSorted(marketData) == SortDesc(marketData)
\* topPerformers[0].symbol on an empty batch is a TypeError (the batches of
\* the provider carry a 24h change in every record, so toFixed does not raise)
overviewThrows(marketData) == marketData = <<>>
generateMarketOverview(marketData, sentiment) ==
    LET topPerformers == SubSeq(overviewSorted(marketData), 1, Min(3, Len(marketData)))
        overallSentiment == IF Gt(sentiment.fearGreedIndex, 65) THEN "bullish"
                            ELSE IF Lt(sentiment.fearGreedIndex, 35) THEN "bearish"
                            ELSE "neutral"
    IN  [signals |-> overallSentiment,
         leader |-> topPerformers[1].symbol,
         leaderChange |-> ToFixed2(Pct(topPerformers[1].percentChange24h[1])),
         volumeTrend |-> IF sentiment.volumeTrend = None THEN "stable"
                         ELSE sentiment.volumeTrend[1]]

getOnChainMetrics == [tvl |-> "$845M", volume |-> "$324M", transactions |-> "24.5M"]

\* x ?? d
Nullish(x, d) == IF x = None THEN d ELSE x[1]

\* The recomputation after the provider fetch resolved: threw tells whether it
\* raised, analysis is the object it returns, marketDataAfter the state of the
\* fetched array when it ends.
generateMarketAnalysis(marketData, sentiment) ==
    LET onChainMetrics == getOnChainMetrics
        trends == analyzeTrends(marketData)
        technicalSignals == generateTechnicalSignals(marketData)
    IN  IF overviewThrows(marketData)
        THEN [threw |-> TRUE, analysis |-> None, marketDataAfter |-> overviewSorted(marketData)]
        ELSE [threw |-> FALSE,
              analysis |-> Some(
                [overview |-> generateMarketOverview(marketData, sentiment),
                 sentiment |-> [overall |-> Nullish(sentiment.marketTrend, "neutral"),
                                fearGreedIndex |-> Nullish(sentiment.fearGreedIndex, 0),
                                socialSentiment |-> Nullish(sentiment.fearGreedLabel, "neutral"),
                                topMentions |-> <<>>],
                 trends |-> [shortTerm |-> trends.shortTerm,
                             mediumTerm |-> trends.mediumTerm,
                             emerging |-> trends.emerging],
                 metrics |-> [totalValueLocked |-> onChainMetrics.tvl,
                              dailyVolume |-> onChainMetrics.volume,
                              dominanceIndex |-> calculateDominanceIndex(overviewSorted(marketData))],
                 technicalSignals |-> technicalSignals]),
              marketDataAfter |-> overviewSorted(marketData)]

\* ------------------------------------------------------ provider (external)
\* the symbols generateMarketAnalysis asks the provider for
SymbolNames == <<"SOL", "BTC", "ETH", "BONK", "JUP">>

Token(symbol, change24h, change7d, volume, prevVolume, cap) ==
    [symbol |-> symbol, price |-> None,
     percentChange24h |-> change24h, percentChange7d |-> change7d,
     volume24h |-> volume, volume24hPrevious |-> prevVolume,
     volumeChange24h |-> None, marketCap |-> cap,
     socialMentionsChange24h |-> None, githubActivity24h |-> None,
     ma50 |-> None, ma200 |-> None]

\* SOL +6% volume up, BTC +1% volume down, ETH -7% volume up
ScenarioBatch ==
    <<Token("SOL", Some(6 * Scale), Some(2 * Scale), Some(2), Some(1), Some(1)),
      Token("BTC", Some(1 * Scale), Some(3 * Scale), Some(1), Some(2), Some(4)),
      Token("ETH", Some(-7 * Scale), Some(-1 * Scale), Some(2), Some(1), Some(1))>>

SecondBatch ==
    <<Token("BTC", Some(3 * Scale), Some(1 * Scale), Some(2), Some(2), Some(3)),
      Token("SOL", Some(3 * Scale), Some(4 * Scale), Some(2), Some(1), None)>>

FullSentiment ==
    [marketTrend |-> Some("bullish"), fearGreedIndex |-> Some(70),
     fearGreedLabel |-> Some("Greed"), volumeTrend |-> Some("rising")]
BareSentiment ==
    [marketTrend |-> None, fearGreedIndex |-> None,
     fearGreedLabel |-> None, volumeTrend |-> None]

\* what the fetches of one round (getMarketData, getMarketSentiment) may
\* resolve to: two batches, and an empty (malformed) one
ProviderResponses ==
    {[marketData |-> ScenarioBatch, sentiment |-> FullSentiment],
     [marketData |-> SecondBatch, sentiment |-> BareSentiment],
     [marketData |-> <<>>, sentiment |-> FullSentiment]}

\* ----------------------------------------------------- market analysis cache
VARIABLES
    now,             \* Date.now(), in ms
    lastUpdate,      \* MarketIntelligenceService.lastUpdate: None or Some(ms)
    cachedAnalysis,  \* MarketIntelligenceService.cachedAnalysis: None or
                     \* Some([ref, value]), ref the identity of the object
    call,            \* per caller, its getMarketAnalysis invocation in flight
    lastOutcome,     \* how the invocation that ended last ended
    fetches,         \* history: provider fetch rounds started
    writes,          \* history: assignments to the cache
    lastStore,       \* history: None or Some([ref, at]) of the last assignment
    scoreIn,         \* input of a scoring run
    scoreOut,        \* None, or Some(result) of the scoring run
    query,           \* the generateEnhancedResponse invocation in progress
    reply,           \* None, or Some(what the invocation that ended last returned)
    messages,        \* ChatInterface state: the conversation
    isProcessing,    \* ChatInterface state
    suggestions,     \* ChatInterface state
    transferIntent,  \* ChatInterface state: None (null) or Some(intent)
    pendingSwapIntent,             \* ChatInterface state: None or Some(intent)
    showTransactionConfirmation,   \* ChatInterface state: transfer dialog open
    isConfirmationOpen,            \* ChatInterface state: swap dialog open
    autoExecute,     \* ChatInterface state: [transfer, swap] auto-execute flags
    send,            \* per request slot, its handleSendMessage invocation
    sent,            \* history: handleSendMessage invocations with an input
    handled,         \* history: None or Some([intent, wallet]) of the last
                     \* handleAIResponse call
    confirm,         \* per confirm action, its executeTransfer invocation
    stores,          \* history: setTransferIntent(intent) calls of handleAIResponse
    marketDataLoaded,  \* ChatInterface state
    timers           \* pending setTimeout callbacks of the announcement effect

vars == <<now, lastUpdate, cachedAnalysis, call, lastOutcome, fetches, writes,
          lastStore, scoreIn, scoreOut, query, reply, messages, isProcessing,
          suggestions, transferIntent, pendingSwapIntent, showTransactionConfirmation,
          isConfirmationOpen, autoExecute, send, sent, handled, confirm, stores,
          marketDataLoaded, timers>>
scoreVars == <<scoreIn, scoreOut>>
queryVars == <<query, reply>>
dialogVars ==
    <<transferIntent, pendingSwapIntent, showTransactionConfirmation, isConfirmationOpen,
      autoExecute>>
transferVars == <<confirm, stores>>
marketVars == <<marketDataLoaded, timers>>
chatVars ==
    <<messages, isProcessing, suggestions, dialogVars, send, sent, handled, transferVars,
      marketVars>>

\* the message the conversation starts with, and restarts with on a reset
Greeting ==
    <<"H", "i", "!", " ", "I", "'", "m", " ", "y", "o", "u", "r", " ", "W", "e", "b",
      "3", " ", "A", "I", " ", "a", "s", "s", "i", "s", "t", "a", "n", "t", ".", " ",
      "H", "o", "w", " ", "c", "a", "n", " ", "I", " ", "h", "e", "l", "p", " ", "y",
      "o", "u", " ", "w", "i", "t", "h", " ", "S", "o", "l", "a", "n", "a", " ", "t",
      "r", "a", "n", "s", "a", "c", "t", "i", "o", "n", "s", " ", "t", "o", "d", "a",
      "y", "?">>
InitialMessages == <<[role |-> "assistant", content |-> Greeting]>>
InitialSuggestions ==
    <<"Check my balance", "What can you help me with?", "How do I swap tokens?",
      "Tell me about Solana">>
\* a request slot with no handleSendMessage invocation in flight; of one in
\* flight, input and messages are the state its closure captured and
\* expertiseLevel the level in the context it built
IdleSend == [pc |-> "idle", input |-> <<>>, messages |-> <<>>, expertiseLevel |-> "beginner"]
\* no executeTransfer invocation started by the confirm action
IdleConfirm == [pc |-> "idle", via |-> "none", intent |-> <<>>, stored |-> 0]
\* the state of the component when it mounts
ChatInit ==
    /\ messages = InitialMessages
    /\ isProcessing = FALSE
    /\ suggestions = InitialSuggestions
    /\ transferIntent = None
    /\ pendingSwapIntent = None
    /\ showTransactionConfirmation = FALSE
    /\ isConfirmationOpen = FALSE
    /\ autoExecute = [transfer |-> FALSE, swap |-> FALSE]
    /\ send = [r \in 1..MaxSends |-> IdleSend]
    /\ sent = 0
    /\ handled = None
    /\ confirm = [c \in 1..MaxConfirms |-> IdleConfirm]
    /\ stores = 0
    /\ marketDataLoaded = FALSE
    /\ timers = 0

\* no invocation of generateEnhancedResponse in progress
IdleQuery ==
    [pc |-> "idle", text |-> <<>>, walletConnected |-> FALSE, expertiseLevel |-> None,
     sentiment |-> None, content |-> None, llmCalls |-> 0]

Callers == 1..NumCallers
CACHE_DURATION == 5 * 60 * 1000

\* generateMarketAnalysis on every response of the provider, computed once
Recomputed == [r \in ProviderResponses |-> generateMarketAnalysis(r.marketData, r.sentiment)]

\* a caller with no invocation in flight; of one in flight, checkedAt is the
\* time of its freshness check, comp its fetch round, and undisturbed (history)
\* whether no other invocation has assigned the cache since the check
IdleCall ==
    [pc |-> "idle", checkedAt |-> 0, undisturbed |-> TRUE, comp |-> 0,
     marketData |-> <<>>, sentiment |-> None]

\* kind: "none", "hit" (the cached object returned without a fetch),
\* "refreshed" (recomputed, stored and returned) or "failed" (raised);
\* checkedAt the time of the freshness check, result and resultStamp the object returned and this.lastUpdate at the
\* return, undisturbed whether no assignment to the cache by another
\* invocation fell between the freshness check and the end
NoOutcome ==
    [kind |-> "none", checkedAt |-> 0, result |-> None,
     resultStamp |-> None, undisturbed |-> TRUE]

InFlight == {c \in Callers : call[c].pc \in {"fetching", "scoring"}}

shouldRefreshCacheAtOrOver ==
    IF lastUpdate = None \/ cachedAnalysis = None THEN TRUE
    ELSE now - lastUpdate[1] >= CACHE_DURATION
shouldRefreshCacheUnlessInFlight ==
    IF InFlight # {} THEN FALSE
    ELSE IF lastUpdate = None \/ cachedAnalysis = None THEN TRUE
    ELSE now - lastUpdate[1] > CACHE_DURATION
shouldRefreshCacheLate ==
    IF lastUpdate = None \/ cachedAnalysis = None THEN TRUE
    ELSE now - lastUpdate[1] > CACHE_DURATION + 1
shouldRefreshCache ==
    IF lastUpdate = None \/ cachedAnalysis = None THEN TRUE
    ELSE now - lastUpdate[1] > CACHE_DURATION

\* this.cachedAnalysis = <the awaited object>; this.lastUpdate = new Date()
\* run in one turn of the event loop
storeAnalysisOnly(snapshot, t) == [cachedAnalysis |-> Some(snapshot), lastUpdate |-> lastUpdate]
storeMerged(snapshot, t) ==
    [cachedAnalysis |->
        IF cachedAnalysis = None THEN Some(snapshot)
        ELSE Some([snapshot EXCEPT !.value.metrics = cachedAnalysis[1].value.metrics]),
     lastUpdate |-> Some(t)]
storeResult(snapshot, t) == [cachedAnalysis |-> Some(snapshot), lastUpdate |-> Some(t)]

\* what a rejected recomputation leaves in the cache
onFailureCleared == [cachedAnalysis |-> None, lastUpdate |-> None]
onFailure == [cachedAnalysis |-> cachedAnalysis, lastUpdate |-> lastUpdate]

Init ==
    /\ now = 0
    /\ lastUpdate = None
    /\ cachedAnalysis = None
    /\ call = [c \in Callers |-> IdleCall]
    /\ lastOutcome = NoOutcome
    /\ fetches = 0
    /\ writes = 0
    /\ lastStore = None
    /\ scoreIn = None
    /\ scoreOut = None
    /\ query = IdleQuery
    /\ reply = None
    /\ ChatInit

\* getMarketAnalysis up to its first await: the freshness check, and either the
\* return of the cached object or the start of the provider fetches
Call(c) ==
    /\ call[c].pc = "idle"
    /\ IF shouldRefreshCache
       THEN /\ fetches < MaxFetches
            /\ fetches' = fetches + 1
            /\ call' = [call EXCEPT ![c] =
                   [IdleCall EXCEPT !.pc = "fetching", !.checkedAt = now,
                                    !.comp = fetches + 1]]
            /\ UNCHANGED lastOutcome
       ELSE /\ lastOutcome' =
                   [NoOutcome EXCEPT !.kind = "hit", !.checkedAt = now,
                                     !.result = cachedAnalysis, !.resultStamp = lastUpdate]
            /\ UNCHANGED <<fetches, call>>
    /\ UNCHANGED <<now, lastUpdate, cachedAnalysis, writes, lastStore, scoreVars>>

\* Promise.all of the three fetches resolves; scoring starts
FetchResolve(c) ==
    /\ call[c].pc = "fetching"
    /\ \E r \in ProviderResponses :
        call' = [call EXCEPT ![c].pc = "scoring",
                             ![c].marketData = r.marketData,
                             ![c].sentiment = Some(r.sentiment)]
    /\ UNCHANGED <<now, lastUpdate, cachedAnalysis, lastOutcome, fetches, writes, lastStore, scoreVars>>

\* the invocation of caller c raises
Raise(c) ==
    /\ call' = [call EXCEPT ![c] = IdleCall]
    /\ lastOutcome' =
           [NoOutcome EXCEPT !.kind = "failed", !.checkedAt = call[c].checkedAt,
                             !.undisturbed = call[c].undisturbed]
    /\ cachedAnalysis' = onFailure.cachedAnalysis
    /\ lastUpdate' = onFailure.lastUpdate
    /\ UNCHANGED <<writes, lastStore>>

\* a provider fetch rejects: generateMarketAnalysis logs and rethrows, and
\* getMarketAnalysis rejects before its assignments
FetchReject(c) ==
    /\ call[c].pc = "fetching"
    /\ Raise(c)
    /\ UNCHANGED <<now, fetches, scoreVars>>

\* the recomputation ends: it raised, or getMarketAnalysis resumes, assigns the
\* object and the timestamp and returns this.cachedAnalysis
Finish(c) ==
    /\ call[c].pc = "scoring"
    /\ LET r == Recomputed[[marketData |-> call[c].marketData, sentiment |-> call[c].sentiment[1]]]
       IN  IF r.threw
           THEN Raise(c)
           ELSE LET stored == storeResult([ref |-> call[c].comp, value |-> r.analysis[1]], now)
                IN  /\ cachedAnalysis' = stored.cachedAnalysis
                    /\ lastUpdate' = stored.lastUpdate
                    /\ call' = [d \in Callers |->
                                   IF d = c THEN IdleCall
                                   ELSE IF call[d].pc = "idle" THEN call[d]
                                   ELSE [call[d] EXCEPT !.undisturbed = FALSE]]
                    /\ lastOutcome' =
                           [kind |-> "refreshed", checkedAt |-> call[c].checkedAt,
                            result |-> stored.cachedAnalysis,
                            resultStamp |-> stored.lastUpdate,
                            undisturbed |-> call[c].undisturbed]
                    /\ writes' = writes + 1
                    /\ lastStore' = Some([ref |-> call[c].comp, at |-> now])
    /\ UNCHANGED <<now, fetches, scoreVars>>

\* the clock advances by a freshness window, or by a millisecond past the
\* edge of one
Tick ==
    /\ \E d \in {1, CACHE_DURATION} :
        /\ (now + d) \div CACHE_DURATION <= MaxWindows
        /\ (now + d) % CACHE_DURATION <= 1
        /\ now' = now + d
    /\ UNCHANGED <<lastUpdate, cachedAnalysis, call, lastOutcome, fetches, writes, lastStore, scoreVars>>

Next ==
    \/ \E c \in Callers : Call(c) /\ UNCHANGED <<queryVars, chatVars>>
    \/ \E c \in Callers : FetchResolve(c) /\ UNCHANGED <<queryVars, chatVars>>
    \/ \E c \in Callers : FetchReject(c) /\ UNCHANGED <<queryVars, chatVars>>
    \/ \E c \in Callers : Finish(c) /\ UNCHANGED <<queryVars, chatVars>>
    \/ Tick /\ UNCHANGED <<queryVars, chatVars>>

Spec == Init /\ [][Next]_vars

\* ---------------------------------------------------------- scoring runs
\* the 24h percent changes enumerated: every multiple of 1/Scale up to MaxPct,
\* and a few far ones
PctValues ==
    ((-MaxPct * Scale)..(MaxPct * Scale))
        \cup {-1000 * Scale, 100 * Scale, 199 * Scale, 1000 * Scale}

\* a record with a price and moving averages; a moving average of positive
\* prices is positive
PricedToken(price, ma50, ma200) ==
    [Token("SOL", None, None, Some(1), Some(1), None)
        EXCEPT !.price = price, !.ma50 = ma50, !.ma200 = ma200]
PricedTokens ==
    {PricedToken(price, ma50, ma200) :
        price \in {None} \cup {Some(k) : k \in 0..MaxPrice},
        ma50 \in {None} \cup {Some(k) : k \in 1..MaxPrice},
        ma200 \in {None} \cup {Some(k) : k \in 1..MaxPrice}}

TokenInputs ==
    {Token("SOL", p, None, Some(v), vp, None) :
        p \in {None} \cup {Some(k) : k \in PctValues},
        v \in 0..MaxVol,
        vp \in {None} \cup {Some(k) : k \in 0..MaxVol}}
        \cup PricedTokens

CapValues == {None} \cup {Some(k) : k \in 0..MaxCap}
RECURSIVE CapSeqs(_)
CapSeqs(n) ==
    IF n = 0 THEN {<<>>}
    ELSE LET shorter == CapSeqs(n - 1)
         IN  shorter \cup {Append(q, k) : q \in {x \in shorter : Len(x) = n - 1}, k \in CapValues}

\* batches of up to MaxBatch records with distinct symbols, differing in their
\* market caps, and the scenario batch
BatchOfCaps(caps) ==
    [i \in 1..Len(caps) |-> Token(SymbolNames[i], Some(Scale), None, Some(1), Some(1), caps[i])]

\* 24h changes on either side of the +-5% marks of the breadth trends
BreadthPcts ==
    {None} \cup {Some(k) : k \in {-5 * Scale - 1, -5 * Scale, 0, 5 * Scale, 5 * Scale + 1}}
RECURSIVE BreadthSeqs(_)
BreadthSeqs(n) ==
    IF n = 0 THEN {<<>>}
    ELSE LET shorter == BreadthSeqs(n - 1)
         IN  shorter \cup {Append(q, p) : q \in {x \in shorter : Len(x) = n - 1}, p \in BreadthPcts}
\* batches of up to one record per requested symbol, differing in their 24h
\* changes
BatchOfPcts(pcts) ==
    [i \in 1..Len(pcts) |-> Token(SymbolNames[i], pcts[i], None, Some(1), Some(1), Some(1))]

BatchInputs ==
    {BatchOfCaps(q) : q \in CapSeqs(MaxBatch)}
        \cup {BatchOfPcts(q) : q \in BreadthSeqs(Len(SymbolNames))}
        \cup {ScenarioBatch}

\* what the fetches of a recomputation resolve to: batches whose records all
\* carry a 24h change, in any order, with either sentiment snapshot
AnalysisInputs ==
    {[marketData |-> BatchOfPcts(q), sentiment |-> s] :
        q \in {x \in BreadthSeqs(MaxBatch) : \A i \in DOMAIN x : x[i] # None},
        s \in {FullSentiment, BareSentiment}}
        \cup ProviderResponses

ScoreInit ==
    /\ now = 0
    /\ lastUpdate = None
    /\ cachedAnalysis = None
    /\ call = [c \in Callers |-> IdleCall]
    /\ lastOutcome = NoOutcome
    /\ fetches = 0
    /\ writes = 0
    /\ lastStore = None
    /\ scoreIn \in {[kind |-> "token", token |-> t, batch |-> <<>>, sentiment |-> None] :
                        t \in TokenInputs}
                   \cup {[kind |-> "batch", token |-> None, batch |-> b, sentiment |-> None] :
                            b \in BatchInputs}
                   \cup {[kind |-> "analysis", token |-> None, batch |-> r.marketData,
                           sentiment |-> Some(r.sentiment)] : r \in AnalysisInputs}
    /\ scoreOut = None
    /\ query = IdleQuery
    /\ reply = None
    /\ ChatInit

cacheVars == <<now, lastUpdate, cachedAnalysis, call, lastOutcome, fetches, writes, lastStore>>

\* one iteration of the loop of generateTechnicalSignals
ScoreToken ==
    /\ scoreIn.kind = "token"
    /\ scoreOut = None
    /\ scoreOut' = Some([sentiment |-> calculateTechnicalSentiment(scoreIn.token),
                         indicators |-> calculateIndicators(scoreIn.token)])
    /\ UNCHANGED <<scoreIn, cacheVars, queryVars, chatVars>>

\* the batch-level scoring of a recomputation
ScoreBatch ==
    /\ scoreIn.kind = "batch"
    /\ scoreOut = None
    /\ scoreOut' = Some([technicalSignals |-> generateTechnicalSignals(scoreIn.batch),
                         trends |-> analyzeTrends(scoreIn.batch),
                         dominanceIndex |-> calculateDominanceIndex(scoreIn.batch)])
    /\ UNCHANGED <<scoreIn, cacheVars, queryVars, chatVars>>

\* generateMarketAnalysis from the point where its fetches have resolved
ScoreAnalysis ==
    /\ scoreIn.kind = "analysis"
    /\ scoreOut = None
    /\ scoreOut' = Some(generateMarketAnalysis(scoreIn.batch, scoreIn.sentiment[1]))
    /\ UNCHANGED <<scoreIn, cacheVars, queryVars, chatVars>>

ScoreNext == ScoreToken \/ ScoreBatch \/ ScoreAnalysis

ScoreSpec == ScoreInit /\ [][ScoreNext]_vars

\* ------------------------------------------------------- LLM orchestration
\* A string is the sequence of its characters.
LowerCase ==
    "A" :> "a" @@ "B" :> "b" @@ "C" :> "c" @@ "D" :> "d" @@ "E" :> "e" @@ "F" :> "f"
        @@ "G" :> "g" @@ "H" :> "h" @@ "I" :> "i" @@ "J" :> "j" @@ "K" :> "k" @@ "L" :> "l"
        @@ "M" :> "m" @@ "N" :> "n" @@ "O" :> "o" @@ "P" :> "p" @@ "Q" :> "q" @@ "R" :> "r"
        @@ "S" :> "s" @@ "T" :> "t" @@ "U" :> "u" @@ "V" :> "v" @@ "W" :> "w" @@ "X" :> "x"
        @@ "Y" :> "y" @@ "Z" :> "z"
toLowerCase(text) ==
    [i \in DOMAIN text |-> IF text[i] \in DOMAIN LowerCase THEN LowerCase[text[i]] ELSE text[i]]
\* text.includes(term)
includes(text, term) ==
    \E i \in 0..(Len(text) - Len(term)) : SubSeq(text, i + 1, i + Len(term)) = term

marketTerms ==
    {<<"p", "r", "i", "c", "e">>, <<"m", "a", "r", "k", "e", "t">>, <<"t", "r", "e", "n", "d">>,
     <<"a", "n", "a", "l", "y", "s", "i", "s">>, <<"m", "o", "v", "e", "m", "e", "n", "t">>,
     <<"p", "r", "e", "d", "i", "c", "t", "i", "o", "n">>}
isMarketRelatedQueryCaseSensitive(text) == \E term \in marketTerms : includes(text, term)
isMarketRelatedQuery(text) == \E term \in marketTerms : includes(toLowerCase(text), term)

generateSuggestionsUntruncated(text, response, context) ==
    (IF isMarketRelatedQuery(text)
        THEN <<"Show detailed market analysis", "Compare with other tokens",
               "Check historical trends">>
        ELSE <<>>)
    \o (IF context.walletConnected
           THEN <<"Check my portfolio performance", "Show my transaction history",
                  "Analyze my trading patterns">>
           ELSE <<>>)
    \o (IF context.expertiseLevel = Some("beginner") THEN <<"Explain blockchain basics">>
        ELSE IF context.expertiseLevel = Some("advanced") THEN <<"Show advanced trading metrics">>
        ELSE <<>>)
generateSuggestions(text, response, context) ==
    LET pushed ==
            (IF isMarketRelatedQuery(text)
                THEN <<"Show detailed market analysis", "Compare with other tokens",
                       "Check historical trends">>
                ELSE <<>>)
            \o (IF context.walletConnected
                   THEN <<"Check my portfolio performance", "Show my transaction history",
                          "Analyze my trading patterns">>
                   ELSE <<>>)
            \o (IF context.expertiseLevel = Some("beginner") THEN <<"Explain blockchain basics">>
                ELSE IF context.expertiseLevel = Some("advanced")
                     THEN <<"Show advanced trading metrics">>
                ELSE <<>>)
    IN  SubSeq(pushed, 1, Min(3, Len(pushed)))

\* what processQuery returns from its catch block
processQueryRethrows ==
    [threw |-> TRUE, message |-> None, intent |-> None, suggestions |-> None, analysis |-> None]
processQueryCatch ==
    [threw |-> FALSE,
     message |-> Some("I encountered an error processing your request. Let me try a different approach - what specifically would you like to know?"),
     intent |-> None,
     suggestions |-> Some(<<"Check market trends", "Analyze token performance", "View wallet stats">>),
     analysis |-> None]

\* what enhanceResponse returns: marketAnalysis is None for a query that is
\* not market related, else Some(the object getMarketAnalysis returned)
enhanceResponse(content, marketAnalysis, context) ==
    [threw |-> FALSE,
     message |-> Some(content),
     intent |-> None,
     suggestions |-> Some(generateSuggestions(context.text, content, context)),
     analysis |-> IF marketAnalysis = None THEN None
                  ELSE Some([marketContext |-> marketAnalysis[1],
                             sentiment |-> context.sentiment])]

\* generateEnhancedResponse once processQuery has settled; recordThrows tells
\* whether aiTrainingAdapter.recordInteraction raises
generateEnhancedResponse(grokResponse, recordThrows) ==
    IF grokResponse.threw \/ recordThrows
    THEN [threw |-> FALSE,
          message |-> Some("I encountered an unexpected issue. Let me know what specific information you're looking for, and I'll help you out."),
          intent |-> None,
          suggestions |-> Some(<<"Check market trends", "View wallet balance", "Learn about DeFi">>)]
    ELSE [threw |-> FALSE,
          message |-> grokResponse.message,
          intent |-> grokResponse.intent,
          suggestions |-> grokResponse.suggestions]

\* the queries asked: "PRICE", "Markets", "trendy", "hello", "send 1 sol"
Queries ==
    {<<"P", "R", "I", "C", "E">>,
     <<"M", "a", "r", "k", "e", "t", "s">>,
     <<"t", "r", "e", "n", "d", "y">>,
     <<"h", "e", "l", "l", "o">>,
     <<"s", "e", "n", "d", " ", "1", " ", "s", "o", "l">>}
\* context.expertiseLevel is optional
ExpertiseLevels == {None, Some("beginner"), Some("intermediate"), Some("advanced")}
\* the contexts of the invocations followed through their awaits
QueryContexts ==
    {[walletConnected |-> w, expertiseLevel |-> Some("beginner")] : w \in BOOLEAN}
\* what openai.chat.completions.create resolves to: a completion without a
\* choice, or one whose first choice carries free text
Completions ==
    {[choices |-> <<>>],
     [choices |-> <<[message |-> [content |-> "Here is what I found."]]>>]}

\* processQuery returns grokResponse to generateEnhancedResponse, which
\* records the interaction and returns; raised (history) names the step of
\* processQuery that raised: "none", "enrichContext", "completion" or
\* "enhanceResponse"
Return(grokResponse, raised) ==
    /\ \E recordThrows \in BOOLEAN :
        reply' = Some([grok |-> grokResponse,
                       out |-> generateEnhancedResponse(grokResponse, recordThrows),
                       raised |-> raised,
                       llmCalls |-> query.llmCalls])
    /\ query' = [query EXCEPT !.pc = "done"]

\* generateEnhancedResponse(prompt, context) up to the first await of
\* enrichContext
ProcessQuery ==
    /\ query.pc \in {"idle", "done"}
    /\ \E text \in Queries, context \in QueryContexts :
        query' = [IdleQuery EXCEPT !.pc = "enriching", !.text = text,
                                   !.walletConnected = context.walletConnected,
                                   !.expertiseLevel = context.expertiseLevel]
    /\ reply' = None
    /\ UNCHANGED <<cacheVars, scoreVars, chatVars>>

\* the fetches of enrichContext resolve; the system prompt is built and the
\* completion requested
EnrichResolve ==
    /\ query.pc = "enriching"
    /\ \E s \in {FullSentiment, BareSentiment} :
        query' = [query EXCEPT !.pc = "calling", !.sentiment = Some(s),
                               !.llmCalls = query.llmCalls + 1]
    /\ UNCHANGED <<reply, cacheVars, scoreVars, chatVars>>

\* a fetch of enrichContext rejects
EnrichReject ==
    /\ query.pc = "enriching"
    /\ Return(processQueryCatch, "enrichContext")
    /\ UNCHANGED <<cacheVars, scoreVars, chatVars>>

\* the completion request rejects
CompletionReject ==
    /\ query.pc = "calling"
    /\ Return(processQueryCatch, "completion")
    /\ UNCHANGED <<cacheVars, scoreVars, chatVars>>

\* the completion resolves and enhanceResponse runs up to its await, or to
\* its end: reading the content of a missing choice raises, a market-related
\* query calls getMarketAnalysis (caller 1 of the cache)
CompletionResolve ==
    /\ query.pc = "calling"
    /\ \E completion \in Completions :
        IF completion.choices = <<>>
        THEN /\ Return(processQueryCatch, "enhanceResponse")
             /\ UNCHANGED <<cacheVars, scoreVars, chatVars>>
        ELSE LET content == completion.choices[1].message.content
             IN  IF isMarketRelatedQuery(query.text)
                 THEN /\ Call(1)
                      /\ UNCHANGED chatVars
                      /\ IF shouldRefreshCache
                         THEN /\ query' = [query EXCEPT !.pc = "analysing",
                                                        !.content = Some(content)]
                              /\ UNCHANGED reply
                         ELSE Return(enhanceResponse(content, cachedAnalysis, query), "none")
                 ELSE /\ Return(enhanceResponse(content, None, query), "none")
                      /\ UNCHANGED <<cacheVars, scoreVars, chatVars>>

\* the provider fetches of the recomputation resolve
AnalysisFetchResolve ==
    /\ query.pc = "analysing"
    /\ FetchResolve(1)
    /\ UNCHANGED <<queryVars, chatVars>>

\* a provider fetch of the recomputation rejects: getMarketAnalysis rejects
\* and enhanceResponse with it
AnalysisFetchReject ==
    /\ query.pc = "analysing"
    /\ FetchReject(1)
    /\ Return(processQueryCatch, "enhanceResponse")
    /\ UNCHANGED chatVars

\* the recomputation ends: it raised, or getMarketAnalysis stored and returned
\* the new object and enhanceResponse runs to its end
AnalysisFinish ==
    /\ query.pc = "analysing"
    /\ Finish(1)
    /\ IF writes' = writes
       THEN Return(processQueryCatch, "enhanceResponse")
       ELSE Return(enhanceResponse(query.content[1], cachedAnalysis', query), "none")
    /\ UNCHANGED chatVars

QueryNext ==
    \/ ProcessQuery
    \/ EnrichResolve
    \/ EnrichReject
    \/ CompletionReject
    \/ CompletionResolve
    \/ AnalysisFetchResolve
    \/ AnalysisFetchReject
    \/ AnalysisFinish
    \/ Tick /\ UNCHANGED <<queryVars, chatVars>>

QuerySpec == Init /\ [][QueryNext]_vars

\* ------------------------------------------------------- suggestion runs
\* "Analysis", "MOVEMENT" and the queries above
SuggestionQueries ==
    Queries \cup {<<"A", "n", "a", "l", "y", "s", "i", "s">>,
                  <<"M", "O", "V", "E", "M", "E", "N", "T">>}

SuggestInit ==
    /\ now = 0
    /\ lastUpdate = None
    /\ cachedAnalysis = None
    /\ call = [c \in Callers |-> IdleCall]
    /\ lastOutcome = NoOutcome
    /\ fetches = 0
    /\ writes = 0
    /\ lastStore = None
    /\ scoreIn = None
    /\ scoreOut = None
    /\ query \in {[IdleQuery EXCEPT !.pc = "suggesting", !.text = text,
                                     !.walletConnected = w, !.expertiseLevel = e] :
                      text \in SuggestionQueries, w \in BOOLEAN, e \in ExpertiseLevels}
    /\ reply = None
    /\ ChatInit

\* generateSuggestions(originalQuery, responseMessage.content, context)
Suggest ==
    /\ query.pc = "suggesting"
    /\ reply' = Some(generateSuggestions(query.text, "Here is what I found.", query))
    /\ query' = [query EXCEPT !.pc = "suggested"]
    /\ UNCHANGED <<cacheVars, scoreVars, chatVars>>

SuggestNext == Suggest

SuggestSpec == SuggestInit /\ [][SuggestNext]_vars

\* ------------------------------------------------------- chat component
advancedTerms ==
    {<<"l", "i", "q", "u", "i", "d", "i", "t", "y", " ", "p", "o", "o", "l">>,
     <<"i", "m", "p", "e", "r", "m", "a", "n", "e", "n", "t", " ", "l", "o", "s", "s">>,
     <<"m", "e", "v">>,
     <<"y", "i", "e", "l", "d", " ", "f", "a", "r", "m", "i", "n", "g">>,
     <<"a", "m", "m">>}
intermediateTerms ==
    {<<"s", "t", "a", "k", "i", "n", "g">>,
     <<"d", "e", "f", "i">>,
     <<"n", "f", "t">>,
     <<"m", "a", "r", "k", "e", "t", " ", "c", "a", "p">>,
     <<"s", "w", "a", "p">>}

determineUserExpertiseAllRoles(msgs) ==
    LET userMessages == {toLowerCase(msgs[i].content) : i \in DOMAIN msgs}
        hasAdvancedTerms ==
            \E msg \in userMessages : \E term \in advancedTerms : includes(msg, term)
        hasIntermediateTerms ==
            \E msg \in userMessages : \E term \in intermediateTerms : includes(msg, term)
    IN  IF hasAdvancedTerms THEN "advanced"
        ELSE IF hasIntermediateTerms THEN "intermediate"
        ELSE "beginner"
determineUserExpertise(msgs) ==
    LET userMessages ==
            {toLowerCase(msgs[i].content) : i \in {j \in DOMAIN msgs : msgs[j].role = "user"}}
        hasAdvancedTerms ==
            \E msg \in userMessages : \E term \in advancedTerms : includes(msg, term)
        hasIntermediateTerms ==
            \E msg \in userMessages : \E term \in intermediateTerms : includes(msg, term)
    IN  IF hasAdvancedTerms THEN "advanced"
        ELSE IF hasIntermediateTerms THEN "intermediate"
        ELSE "beginner"

\* !input.trim(), of an input whose only white space is the space
isBlankUntrimmed(text) == text = <<>>
isBlank(text) == \A i \in DOMAIN text : text[i] = " "

\* a string field of an intent that is set and not empty
Present(x) == x # None /\ x[1] # ""

Understood ==
    <<"I", " ", "u", "n", "d", "e", "r", "s", "t", "a", "n", "d", " ", "y", "o", "u",
      "r", " ", "r", "e", "q", "u", "e", "s", "t", " ", "a", "n", "d", " ", "w", "i",
      "l", "l", " ", "p", "r", "o", "c", "e", "s", "s", " ", "i", "t", " ", "a", "c",
      "c", "o", "r", "d", "i", "n", "g", "l", "y", ".">>
ErrorPrefix == <<"E", "r", "r", "o", "r", ":", " ">>
ErrorSuffix ==
    <<".", " ", "P", "l", "e", "a", "s", "e", " ", "t", "r", "y", " ", "a", "g", "a",
      "i", "n", ".">>
WalletNotConnected ==
    <<"W", "a", "l", "l", "e", "t", " ", "n", "o", "t", " ", "c", "o", "n", "n", "e",
      "c", "t", "e", "d">>
InvalidSwap ==
    <<"I", "n", "v", "a", "l", "i", "d", " ", "s", "w", "a", "p", " ", "p", "a", "r",
      "a", "m", "e", "t", "e", "r", "s">>
InvalidTransfer ==
    <<"I", "n", "v", "a", "l", "i", "d", " ", "t", "r", "a", "n", "s", "f", "e", "r",
      " ", "p", "a", "r", "a", "m", "e", "t", "e", "r", "s">>
GenericError ==
    <<"I", " ", "e", "n", "c", "o", "u", "n", "t", "e", "r", "e", "d", " ", "a", "n",
      " ", "e", "r", "r", "o", "r", " ", "p", "r", "o", "c", "e", "s", "s", "i", "n",
      "g", " ", "y", "o", "u", "r", " ", "r", "e", "q", "u", "e", "s", "t", ".", " ",
      "P", "l", "e", "a", "s", "e", " ", "t", "r", "y", " ", "a", "g", "a", "i", "n",
      ".">>

\* what handleAIResponse raises inside its try block: None, or Some(message)
intentErrorUnchecked(intent, wallet) ==
    IF ~wallet.connected \/ wallet.publicKey = None THEN Some(WalletNotConnected)
    ELSE None
intentError(intent, wallet) ==
    IF ~wallet.connected \/ wallet.publicKey = None THEN Some(WalletNotConnected)
    ELSE IF intent.type = "SWAP" /\ (~Present(intent.fromToken) \/ ~Present(intent.toToken))
         THEN Some(InvalidSwap)
    ELSE IF intent.type = "TRANSFER" /\ (~Present(intent.recipient) \/ ~Present(intent.amount))
         THEN Some(InvalidTransfer)
    ELSE None

\* handleAIResponse(intent) with the wallet it reads: the message it appends
\* and the dialog state it leaves
handleAIResponse(intent, wallet) ==
    LET error == intentError(intent, wallet)
        swap == error = None /\ intent.type = "SWAP"
        transfer == error = None /\ intent.type = "TRANSFER"
    IN  [message |->
            [role |-> "assistant",
             content |-> IF error # None THEN ErrorPrefix \o error[1] \o ErrorSuffix
                         ELSE IF intent.response # None /\ intent.response[1] # <<>>
                              THEN intent.response[1]
                         ELSE Understood],
         stored |-> transfer,
         transferIntent |-> IF transfer THEN Some(intent) ELSE transferIntent,
         pendingSwapIntent |-> IF swap THEN Some(intent) ELSE pendingSwapIntent,
         showTransactionConfirmation |-> IF transfer THEN TRUE ELSE showTransactionConfirmation,
         isConfirmationOpen |-> IF swap THEN TRUE ELSE isConfirmationOpen,
         autoExecute |->
            [transfer |-> IF transfer THEN intent.autoExecute = Some(TRUE)
                          ELSE autoExecute.transfer,
             swap |-> IF swap THEN intent.autoExecute = Some(TRUE) ELSE autoExecute.swap]]

\* what the user types: "hello", "Swap 1 SOL", "MEV", "nft amm", nothing, blanks
Inputs ==
    {<<"h", "e", "l", "l", "o">>,
     <<"S", "w", "a", "p", " ", "1", " ", "S", "O", "L">>,
     <<"M", "E", "V">>,
     <<"n", "f", "t", " ", "a", "m", "m">>,
     <<>>,
     <<" ", " ">>}
\* the inputs of a conversation about one request
RequestInputs == {<<"S", "w", "a", "p", " ", "1", " ", "S", "O", "L">>, <<>>, <<" ", " ">>}
\* the wallet as a handler reads it
Wallets ==
    {[connected |-> FALSE, publicKey |-> None],
     [connected |-> TRUE, publicKey |-> None],
     [connected |-> TRUE, publicKey |-> Some("7xKX")]}

Intent(type, recipient, amount, fromToken, toToken) ==
    [type |-> type, recipient |-> recipient, amount |-> amount, fromToken |-> fromToken,
     toToken |-> toToken, autoExecute |-> None, response |-> None]
Intents ==
    {Intent("TRANSFER", Some("9aBc"), Some("0.1"), None, None),
     Intent("TRANSFER", None, Some("0.1"), None, None),
     Intent("TRANSFER", Some("9aBc"), None, None, None),
     Intent("TRANSFER", Some(""), Some("0.1"), None, None),
     Intent("SWAP", None, None, Some("SOL"), Some("USDC")),
     Intent("SWAP", None, None, None, Some("USDC")),
     Intent("SWAP", None, None, Some("SOL"), None),
     [Intent("SWAP", None, None, Some("SOL"), Some("BONK")) EXCEPT !.autoExecute = Some(TRUE)],
     Intent("BALANCE", None, None, None, None)}

\* "Done." and "Try an AMM."
ReplyTexts ==
    {<<"D", "o", "n", "e", ".">>,
     <<"T", "r", "y", " ", "a", "n", " ", "A", "M", "M", ".">>}
\* what aiModel.generateEnhancedResponse resolves to
AIResponses ==
    {[message |-> m, intent |-> None, suggestions |-> Some(<<"Check market trends">>)] :
        m \in ReplyTexts}
\* the responses that carry an intent
IntentResponses ==
    {[message |-> <<"D", "o", "n", "e", ".">>, intent |-> Some(i), suggestions |-> None] :
        i \in Intents}

\* the capability announcement of the market-data effect
MarketAnnouncement ==
    <<"I", " ", "c", "a", "n", " ", "a", "l", "s", "o", " ", "p", "r", "o", "v", "i",
      "d", "e", " ", "y", "o", "u", " ", "w", "i", "t", "h", " ", "r", "e", "a", "l",
      "-", "t", "i", "m", "e", " ", "c", "r", "y", "p", "t", "o", "c", "u", "r", "r",
      "e", "n", "c", "y", " ", "p", "r", "i", "c", "e", "s", " ", "a", "n", "d", " ",
      "m", "a", "r", "k", "e", "t", " ", "t", "r", "e", "n", "d", "s", ".", " ", "F",
      "e", "e", "l", " ", "f", "r", "e", "e", " ", "t", "o", " ", "a", "s", "k", " ",
      "m", "e", " ", "a", "b", "o", "u", "t", " ", "B", "i", "t", "c", "o", "i", "n",
      ",", " ", "E", "t", "h", "e", "r", "e", "u", "m", ",", " ", "o", "r", " ", "a",
      "n", "y", " ", "o", "t", "h", "e", "r", " ", "m", "a", "j", "o", "r", " ", "c",
      "r", "y", "p", "t", "o", "c", "u", "r", "r", "e", "n", "c", "y", "!", " ", "Y",
      "o", "u", " ", "c", "a", "n", " ", "e", "v", "e", "n", " ", "p", "a", "s", "t",
      "e", " ", "t", "o", "k", "e", "n", " ", "c", "o", "n", "t", "r", "a", "c", "t",
      " ", "a", "d", "d", "r", "e", "s", "s", "e", "s", " ", "f", "r", "o", "m", " ",
      "E", "t", "h", "e", "r", "e", "u", "m", ",", " ", "B", "S", "C", ",", " ", "o",
      "r", " ", "S", "o", "l", "a", "n", "a", " ", "t", "o", " ", "g", "e", "t", " ",
      "d", "e", "t", "a", "i", "l", "e", "d", " ", "i", "n", "f", "o", "r", "m", "a",
      "t", "i", "o", "n", ".">>
CryptocurrencyPrices ==
    <<"c", "r", "y", "p", "t", "o", "c", "u", "r", "r", "e", "n", "c", "y", " ", "p",
      "r", "i", "c", "e", "s">>
\* messages.some((m) => m.content.includes("cryptocurrency prices"))
announced(msgs) ==
    \E i \in DOMAIN msgs : includes(msgs[i].content, CryptocurrencyPrices)

\* the effect on [marketDataLoaded, messages], run after a step of a handler
\* that leaves marketDataLoaded alone: when messages changed, the data is
\* loaded and no message announces it, it sets a timer; the effect returns no
\* cleanup, so the timers set earlier stay pending
marketAnnouncementEffect ==
    /\ marketDataLoaded' = marketDataLoaded
    /\ timers' = IF messages' # messages /\ marketDataLoaded /\ ~announced(messages')
                 THEN timers + 1 ELSE timers
    /\ timers' <= MaxTimers

\* handleSendMessage up to its first await, started by the send button
\* (disabled while isProcessing or on a blank input) or by the Enter key
HandleSendMessage(r, texts) ==
    /\ send[r].pc = "idle"
    /\ \A q \in 1..(r - 1) : send[q].pc # "idle"
    /\ \E text \in texts, via \in {"button", "enter"} :
        /\ via = "button" => ~isProcessing /\ ~isBlank(text)
        /\ IF isBlank(text)
           THEN UNCHANGED chatVars
           ELSE /\ sent < MaxSends
                /\ sent' = sent + 1
                /\ isProcessing' = TRUE
                /\ messages' = Append(messages, [role |-> "user", content |-> text])
                /\ suggestions' = <<>>
                /\ send' = [send EXCEPT ![r] =
                       [pc |-> "context", input |-> text, messages |-> messages,
                        expertiseLevel |-> determineUserExpertise(messages)]]
                /\ handled' = None
                /\ UNCHANGED <<dialogVars, transferVars>>
    /\ marketAnnouncementEffect
    /\ UNCHANGED <<cacheVars, scoreVars, queryVars>>

\* getMarketContext resolves (it never rejects) and the request is passed to
\* aiModel.generateEnhancedResponse
ContextResolve(r) ==
    /\ send[r].pc = "context"
    /\ send' = [send EXCEPT ![r].pc = "responding"]
    /\ handled' = None
    /\ UNCHANGED <<messages, isProcessing, suggestions, dialogVars, sent, transferVars>>
    /\ marketAnnouncementEffect
    /\ UNCHANGED <<cacheVars, scoreVars, queryVars>>

\* the response arrives: the assistant message, the suggestions, the intent
\* (handleAIResponse) and the finally block
ResponseResolve(r, responses) ==
    /\ send[r].pc = "responding"
    /\ \E aiResponse \in responses :
        LET assistantMessage == [role |-> "assistant", content |-> aiResponse.message]
        IN  /\ suggestions' =
                   IF aiResponse.suggestions # None /\ Len(aiResponse.suggestions[1]) > 0
                   THEN aiResponse.suggestions[1] ELSE suggestions
            /\ IF aiResponse.intent = None
               THEN /\ messages' = Append(messages, assistantMessage)
                    /\ handled' = None
                    /\ UNCHANGED <<dialogVars, stores>>
               ELSE \E wallet \in Wallets :
                       LET after == handleAIResponse(aiResponse.intent[1], wallet)
                       IN  /\ messages' = Append(Append(messages, assistantMessage),
                                                 after.message)
                           /\ transferIntent' = after.transferIntent
                           /\ pendingSwapIntent' = after.pendingSwapIntent
                           /\ showTransactionConfirmation' = after.showTransactionConfirmation
                           /\ isConfirmationOpen' = after.isConfirmationOpen
                           /\ autoExecute' = after.autoExecute
                           /\ handled' = Some([intent |-> aiResponse.intent[1],
                                               wallet |-> wallet])
                           /\ stores' = IF after.stored THEN stores + 1 ELSE stores
    /\ isProcessing' = FALSE
    /\ send' = [send EXCEPT ![r] = IdleSend]
    /\ UNCHANGED <<sent, confirm>>
    /\ marketAnnouncementEffect
    /\ UNCHANGED <<cacheVars, scoreVars, queryVars>>

\* the awaited response rejects: the catch and finally blocks
ResponseReject(r) ==
    /\ send[r].pc = "responding"
    /\ messages' = Append(messages, [role |-> "assistant", content |-> GenericError])
    /\ isProcessing' = FALSE
    /\ send' = [send EXCEPT ![r] = IdleSend]
    /\ handled' = None
    /\ UNCHANGED <<suggestions, dialogVars, sent, transferVars>>
    /\ marketAnnouncementEffect
    /\ UNCHANGED <<cacheVars, scoreVars, queryVars>>

\* the "Reset conversation" button
ResetConversation ==
    /\ messages # InitialMessages
    /\ messages' = InitialMessages
    /\ handled' = None
    /\ UNCHANGED <<isProcessing, suggestions, dialogVars, send, sent, transferVars>>
    /\ marketAnnouncementEffect
    /\ UNCHANGED <<cacheVars, scoreVars, queryVars>>

\* conversations over every input, answered in text
ChatNext ==
    \/ \E r \in 1..MaxSends : HandleSendMessage(r, Inputs)
    \/ \E r \in 1..MaxSends : ContextResolve(r)
    \/ \E r \in 1..MaxSends : ResponseResolve(r, AIResponses)
    \/ \E r \in 1..MaxSends : ResponseReject(r)
    \/ ResetConversation

ChatSpec == Init /\ [][ChatNext]_vars

\* conversations about one request, answered with an intent
IntentNext ==
    \/ \E r \in 1..MaxSends : HandleSendMessage(r, RequestInputs)
    \/ \E r \in 1..MaxSends : ContextResolve(r)
    \/ \E r \in 1..MaxSends : ResponseResolve(r, IntentResponses)
    \/ \E r \in 1..MaxSends : ResponseReject(r)
    \/ ResetConversation

IntentSpec == Init /\ [][IntentNext]_vars

\* a reply in text and a reply with a complete TRANSFER intent
SendResponses ==
    {[message |-> <<"D", "o", "n", "e", ".">>, intent |-> None,
      suggestions |-> Some(<<"Check market trends">>)],
     [message |-> <<"D", "o", "n", "e", ".">>,
      intent |-> Some(Intent("TRANSFER", Some("9aBc"), Some("0.1"), None, None)),
      suggestions |-> None]}

\* conversations about one request whose awaited promises all settle:
\* getMarketContext resolves and generateEnhancedResponse resolves or rejects
SendNext ==
    \/ \E r \in 1..MaxSends : HandleSendMessage(r, RequestInputs)
    \/ \E r \in 1..MaxSends : ContextResolve(r)
    \/ \E r \in 1..MaxSends : ResponseResolve(r, SendResponses)
    \/ \E r \in 1..MaxSends : ResponseReject(r)
    \/ ResetConversation

SendFairness ==
    \A r \in 1..MaxSends :
        /\ WF_vars(ContextResolve(r))
        /\ WF_vars(ResponseResolve(r, SendResponses) \/ ResponseReject(r))
SendLiveSpec == Init /\ [][SendNext]_vars /\ SendFairness

\* --------------------------------------------- ChatInterface: the transfer
\* `Transfer successful! Transaction ID: ${result.txId}` with txId "5Tx"
TransferSuccessful ==
    <<"T", "r", "a", "n", "s", "f", "e", "r", " ", "s", "u", "c", "c", "e", "s", "s",
      "f", "u", "l", "!", " ", "T", "r", "a", "n", "s", "a", "c", "t", "i", "o", "n",
      " ", "I", "D", ":", " ", "5", "T", "x">>
\* `Transfer failed: ${error.message}` of handleConfirmTransfer, around the
\* error executeTransfer rethrows
TransferFailed ==
    <<"T", "r", "a", "n", "s", "f", "e", "r", " ", "f", "a", "i", "l", "e", "d", ":",
      " ", "T", "r", "a", "n", "s", "f", "e", "r", " ", "f", "a", "i", "l", "e", "d",
      ":", " ", "U", "n", "k", "n", "o", "w", "n", " ", "e", "r", "r", "o", "r">>
TransactionCancelled ==
    <<"T", "r", "a", "n", "s", "a", "c", "t", "i", "o", "n", " ", "c", "a", "n", "c",
      "e", "l", "l", "e", "d", ".">>

\* executeTransfer up to its await: it throws without transferIntent or
\* without a connected wallet and otherwise calls
\* TokenTransferService.transferTokens with the intent of its closure
executeTransfer(c, via, wallet) ==
    IF transferIntent = None \/ ~wallet.connected \/ wallet.publicKey = None
    THEN UNCHANGED confirm
    ELSE confirm' = [confirm EXCEPT ![c] =
             [pc |-> "transferring", via |-> via, intent |-> transferIntent,
              stored |-> stores]]

\* the confirm button of TransactionConfirmationModal, shown while
\* showTransactionConfirmation: onConfirm={executeTransfer}
ModalConfirm(c) ==
    /\ confirm[c].pc = "idle"
    /\ \A q \in 1..(c - 1) : confirm[q].pc # "idle"
    /\ showTransactionConfirmation
    /\ \E wallet \in Wallets : executeTransfer(c, "modal", wallet)
    /\ handled' = None
    /\ UNCHANGED <<messages, isProcessing, suggestions, dialogVars, send, sent, stores>>
    /\ marketAnnouncementEffect
    /\ UNCHANGED <<cacheVars, scoreVars, queryVars>>

\* handleConfirmTransfer up to its await: it returns on an invalid state
\* (where executeTransfer would throw) and otherwise awaits executeTransfer
HandleConfirmTransfer(c) ==
    /\ confirm[c].pc = "idle"
    /\ \A q \in 1..(c - 1) : confirm[q].pc # "idle"
    /\ \E wallet \in Wallets : executeTransfer(c, "handler", wallet)
    /\ handled' = None
    /\ UNCHANGED <<messages, isProcessing, suggestions, dialogVars, send, sent, stores>>
    /\ marketAnnouncementEffect
    /\ UNCHANGED <<cacheVars, scoreVars, queryVars>>

\* handleSuggestionClick("Confirm") and handleSuggestionClick("Cancel")
HandleSuggestionClick(c) ==
    /\ confirm[c].pc = "idle"
    /\ \A q \in 1..(c - 1) : confirm[q].pc # "idle"
    /\ transferIntent # None
    /\ \E suggestion \in {"Confirm", "Cancel"} :
        IF suggestion = "Confirm"
        THEN /\ \E wallet \in Wallets : executeTransfer(c, "suggestion", wallet)
             /\ UNCHANGED <<messages, dialogVars>>
        ELSE /\ messages' = Append(messages, [role |-> "assistant",
                                               content |-> TransactionCancelled])
             /\ transferIntent' = None
             /\ UNCHANGED <<pendingSwapIntent, showTransactionConfirmation,
                            isConfirmationOpen, autoExecute, confirm>>
    /\ handled' = None
    /\ UNCHANGED <<isProcessing, suggestions, send, sent, stores>>
    /\ marketAnnouncementEffect
    /\ UNCHANGED <<cacheVars, scoreVars, queryVars>>

\* onClose of the modal
ModalClose ==
    /\ showTransactionConfirmation
    /\ showTransactionConfirmation' = FALSE
    /\ handled' = None
    /\ UNCHANGED <<transferIntent, pendingSwapIntent, isConfirmationOpen, autoExecute>>
    /\ UNCHANGED <<messages, isProcessing, suggestions, send, sent, transferVars>>
    /\ marketAnnouncementEffect
    /\ UNCHANGED <<cacheVars, scoreVars, queryVars>>

\* the finally block of handleConfirmTransfer
afterConfirm(c) ==
    IF confirm[c].via = "handler"
    THEN /\ showTransactionConfirmation' = FALSE
         /\ transferIntent' = None
         /\ UNCHANGED <<pendingSwapIntent, isConfirmationOpen, autoExecute>>
    ELSE UNCHANGED dialogVars

\* transferTokens resolves: executeTransfer appends the success message
TransferResolve(c) ==
    /\ confirm[c].pc = "transferring"
    /\ confirm' = [confirm EXCEPT ![c].pc = "succeeded"]
    /\ messages' = Append(messages, [role |-> "assistant", content |-> TransferSuccessful])
    /\ afterConfirm(c)
    /\ handled' = None
    /\ UNCHANGED <<isProcessing, suggestions, send, sent, stores>>
    /\ marketAnnouncementEffect
    /\ UNCHANGED <<cacheVars, scoreVars, queryVars>>

\* transferTokens rejects: executeTransfer rethrows, which only
\* handleConfirmTransfer catches
TransferReject(c) ==
    /\ confirm[c].pc = "transferring"
    /\ confirm' = [confirm EXCEPT ![c].pc = "failed"]
    /\ messages' = IF confirm[c].via = "handler"
                   THEN Append(messages, [role |-> "assistant", content |-> TransferFailed])
                   ELSE messages
    /\ afterConfirm(c)
    /\ handled' = None
    /\ UNCHANGED <<isProcessing, suggestions, send, sent, stores>>
    /\ marketAnnouncementEffect
    /\ UNCHANGED <<cacheVars, scoreVars, queryVars>>

\* conversations about one transfer request and its confirmation
TransferNext ==
    \/ \E r \in 1..MaxSends : HandleSendMessage(r, RequestInputs)
    \/ \E r \in 1..MaxSends : ContextResolve(r)
    \/ \E r \in 1..MaxSends : ResponseResolve(r, SendResponses)
    \/ \E r \in 1..MaxSends : ResponseReject(r)
    \/ ResetConversation
    \/ \E c \in 1..MaxConfirms : ModalConfirm(c)
    \/ \E c \in 1..MaxConfirms : HandleConfirmTransfer(c)
    \/ \E c \in 1..MaxConfirms : HandleSuggestionClick(c)
    \/ ModalClose
    \/ \E c \in 1..MaxConfirms : TransferResolve(c)
    \/ \E c \in 1..MaxConfirms : TransferReject(c)

TransferSpec == Init /\ [][TransferNext]_vars

\* --------------------------------------- ChatInterface: the market effects
MarketSuggestions ==
    <<"What's the price of Bitcoin?", "How is the crypto market doing?",
      "Show me top performing coins",
      "Analyze this: 0x2260fac5e5542a773aa44fbcfedf7c193bc2c599">>
\* the greeting of the wallet effect, for the address 7xKX...9aBc
WalletGreetingText ==
    <<"G", "r", "e", "a", "t", "!", " ", "Y", "o", "u", "r", " ", "w", "a", "l", "l",
      "e", "t", " ", "i", "s", " ", "c", "o", "n", "n", "e", "c", "t", "e", "d", ".",
      " ", "Y", "o", "u", "r", " ", "a", "d", "d", "r", "e", "s", "s", " ", "i", "s",
      " ", "7", "x", "K", "X", ".", ".", ".", "9", "a", "B", "c", ".", " ", "H", "o",
      "w", " ", "c", "a", "n", " ", "I", " ", "a", "s", "s", "i", "s", "t", " ", "y",
      "o", "u", " ", "w", "i", "t", "h", " ", "y", "o", "u", "r", " ", "S", "o", "l",
      "a", "n", "a", " ", "t", "r", "a", "n", "s", "a", "c", "t", "i", "o", "n", "s",
      "?">>
WalletIsConnected ==
    <<"w", "a", "l", "l", "e", "t", " ", "i", "s", " ", "c", "o", "n", "n", "e", "c",
      "t", "e", "d">>

\* fetchMarketData resolves for the first time: setMarketDataLoaded(true),
\* and the announcement effect runs
FetchMarketData ==
    /\ ~marketDataLoaded
    /\ marketDataLoaded' = TRUE
    /\ timers' = IF announced(messages) THEN timers ELSE timers + 1
    /\ timers' <= MaxTimers
    /\ handled' = None
    /\ UNCHANGED <<messages, isProcessing, suggestions, dialogVars, send, sent, transferVars>>
    /\ UNCHANGED <<cacheVars, scoreVars, queryVars>>

\* a timer of the announcement effect runs out
AnnouncementTimer ==
    /\ timers > 0
    /\ timers' = timers - 1
    /\ messages' = Append(messages, [role |-> "assistant", content |-> MarketAnnouncement])
    /\ suggestions' = MarketSuggestions
    /\ handled' = None
    /\ UNCHANGED <<marketDataLoaded, isProcessing, dialogVars, send, sent, transferVars>>
    /\ UNCHANGED <<cacheVars, scoreVars, queryVars>>

\* the wallet effect, with the wallet connected: it greets unless a message
\* of the list already does
WalletGreeting ==
    /\ ~\E i \in DOMAIN messages : includes(messages[i].content, WalletIsConnected)
    /\ messages' = Append(messages, [role |-> "assistant", content |-> WalletGreetingText])
    /\ handled' = None
    /\ UNCHANGED <<isProcessing, suggestions, dialogVars, send, sent, transferVars>>
    /\ marketAnnouncementEffect
    /\ UNCHANGED <<cacheVars, scoreVars, queryVars>>

\* conversations while the market data loads and the wallet connects
MarketNext ==
    \/ \E r \in 1..MaxSends : HandleSendMessage(r, RequestInputs)
    \/ \E r \in 1..MaxSends : ContextResolve(r)
    \/ \E r \in 1..MaxSends : ResponseResolve(r, SendResponses)
    \/ \E r \in 1..MaxSends : ResponseReject(r)
    \/ ResetConversation
    \/ FetchMarketData
    \/ AnnouncementTimer
    \/ WalletGreeting

MarketSpec == Init /\ [][MarketNext]_vars

\* ------------------------------------------------- properties of the scoring
ScoredToken == scoreIn.kind = "token" /\ scoreOut # None
ScoredBatch == scoreIn.kind = "batch" /\ scoreOut # None
ScoredAnalysis == scoreIn.kind = "analysis" /\ scoreOut # None

\* a record that carries a 24h change, a volume and a previous volume
C7_Complete(t) ==
    t.percentChange24h # None /\ t.volume24h # None /\ t.volume24hPrevious # None
C7_Expected(t) ==
    LET p == t.percentChange24h[1]
        up == t.volume24h[1] > t.volume24hPrevious[1]
    IN  CASE up /\ p > 5 * Scale -> "strongly bullish"
          [] up /\ p > 2 * Scale /\ p <= 5 * Scale -> "bullish"
          [] up /\ p < -5 * Scale -> "strongly bearish"
          [] up /\ p < -2 * Scale /\ p >= -5 * Scale -> "bearish"
          [] OTHER -> "neutral"

\* C7: the sentiment label of a record with 24h change p, volume v and previous
\* volume v_prev is the first match of p > 5 (strongly bullish), p > 2
\* (bullish), p < -5 (strongly bearish), p < -2 (bearish), each with
\* v > v_prev, else neutral; p = 5 with v > v_prev is bullish, v = v_prev is
\* neutral for every p; the scenario batch is labelled strongly bullish (SOL),
\* neutral (BTC), strongly bearish (ETH).
C7_SentimentClassification ==
    /\ (ScoredToken /\ C7_Complete(scoreIn.token)) =>
          /\ scoreOut[1].sentiment = C7_Expected(scoreIn.token)
          /\ (scoreIn.token.percentChange24h[1] = 5 * Scale
                /\ scoreIn.token.volume24h[1] > scoreIn.token.volume24hPrevious[1])
             => scoreOut[1].sentiment = "bullish"
          /\ scoreIn.token.volume24h[1] = scoreIn.token.volume24hPrevious[1]
             => scoreOut[1].sentiment = "neutral"
    /\ (ScoredBatch /\ scoreIn.batch = ScenarioBatch) =>
          /\ scoreOut[1].technicalSignals["SOL"].sentiment = "strongly bullish"
          /\ scoreOut[1].technicalSignals["BTC"].sentiment = "neutral"
          /\ scoreOut[1].technicalSignals["ETH"].sentiment = "strongly bearish"

\* a record at the edge p = 5 with rising volume has been labelled bullish
C7_Witness ==
    /\ ScoredToken
    /\ C7_Complete(scoreIn.token)
    /\ scoreIn.token.percentChange24h[1] = 5 * Scale
    /\ scoreIn.token.volume24h[1] > scoreIn.token.volume24hPrevious[1]
    /\ scoreOut[1].sentiment = "bullish"

\* C8: for every finite 24h percent change, p = 0 and every case of losses = 0
\* included, the oscillator is a number in [0, 100] and neither of its two
\* divisions has a zero divisor.
C8_OscillatorInRange ==
    (ScoredToken /\ scoreIn.token.percentChange24h # None) =>
        LET rsi == scoreOut[1].indicators.rsi
            p == scoreIn.token.percentChange24h[1]
            divisor == rsiDivisor(scoreIn.token)
        IN  /\ IsFinite(rsi)
            /\ 0 <= rsi.n /\ rsi.n <= 100 * rsi.d
            /\ divisor # 0
            /\ divisor + Max(0, p) # 0

\* the oscillator of p = 0, where losses = 0 and the divisor is clamped to 1
C8_Witness ==
    /\ ScoredToken
    /\ scoreIn.token.percentChange24h = Some(0)
    /\ scoreOut[1].indicators.rsi = Rat(0, 1)

\* round(100 - 100 / (1 + gains / max(losses, 1))), gains = max(0, p),
\* losses = abs(min(0, p)), for p in units of 1/Scale
C9_Formula(p) ==
    LET gains == IF p > 0 THEN p ELSE 0
        losses == IF p < 0 THEN -p ELSE 0
        clamped == IF losses >= Scale THEN losses ELSE Scale
        x == Rat(100 * gains, clamped + gains)
    IN  Rat((2 * x.n + x.d) \div (2 * x.d), 1)

\* C9: for every 24h percent change p the oscillator is the value of
\* round(100 - 100 / (1 + gains / max(losses, 1))), also for 0 < losses < 1
\* where the code divides by losses and the formula by 1.
C9_OscillatorFormula ==
    (ScoredToken /\ scoreIn.token.percentChange24h # None) =>
        scoreOut[1].indicators.rsi = C9_Formula(scoreIn.token.percentChange24h[1])

\* the oscillator of a loss strictly between 0 and 1 percent
C9_Witness ==
    /\ ScoredToken
    /\ scoreIn.token.percentChange24h # None
    /\ scoreIn.token.percentChange24h[1] < 0
    /\ -scoreIn.token.percentChange24h[1] < Scale

RECURSIVE C10_SumOver(_, _)
C10_SumOver(f, S) ==
    IF S = {} THEN 0
    ELSE LET x == CHOOSE y \in S : TRUE IN f[x] + C10_SumOver(f, S \ {x})

C10_HasCap(t) == t.marketCap # None /\ t.marketCap[1] # 0
C10_Caps(marketData) ==
    [s \in {marketData[i].symbol : i \in {j \in DOMAIN marketData : C10_HasCap(marketData[j])}} |->
        LET i == CHOOSE j \in DOMAIN marketData : marketData[j].symbol = s
        IN  marketData[i].marketCap[1]]

\* C10: the dominance index has an entry exactly for the records with a market
\* cap; each entry is the share of the summed caps in percent at the nearest
\* hundredth; when every record has a cap the entries sum to 100 within 0.005
\* per symbol; a batch without caps gives the empty mapping, and no entry is the
\* result of a division by zero.
C10_DominanceIndex ==
    ScoredBatch =>
        LET marketData == scoreIn.batch
            dominance == scoreOut[1].dominanceIndex
            caps == C10_Caps(marketData)
            total == C10_SumOver(caps, DOMAIN caps)
            hundredths == [s \in DOMAIN dominance |-> dominance[s].n]
        IN  /\ DOMAIN dominance = DOMAIN caps
            /\ \A s \in DOMAIN dominance :
                  /\ dominance[s].d = 100
                  /\ total > 0
                  /\ 2 * Abs(dominance[s].n * total - 10000 * caps[s]) <= total
            /\ (marketData # <<>> /\ \A i \in DOMAIN marketData : C10_HasCap(marketData[i]))
               => 2 * Abs(C10_SumOver(hundredths, DOMAIN hundredths) - 10000) <= Len(marketData)
            /\ (\A i \in DOMAIN marketData : ~C10_HasCap(marketData[i]))
               => dominance = << >>

\* three records with equal caps: 33.33 each, 99.99 in all
C10_Witness ==
    /\ ScoredBatch
    /\ Len(scoreIn.batch) = 3
    /\ \A i \in DOMAIN scoreIn.batch : C10_HasCap(scoreIn.batch[i])
    /\ \A s \in DOMAIN scoreOut[1].dominanceIndex :
          scoreOut[1].dominanceIndex[s] = Rat(3333, 100)

\* the moving average the label is computed from: the price when absent
C18_Average(ma, price) == IF ma = None THEN price ELSE ma[1]
C18_Expected(price, ma50, ma200) ==
    CASE price > ma50 /\ ma50 > ma200 -> "strong uptrend"
      [] price > ma50 /\ ~(ma50 > ma200) -> "uptrend"
      [] price < ma50 /\ ma50 < ma200 -> "strong downtrend"
      [] price < ma50 /\ ~(ma50 < ma200) -> "downtrend"
      [] OTHER -> "sideways"

\* C18: with ma50 and ma200 taken to be the price when absent, the
\* moving-average label of a record is the first match of price > ma50 > ma200
\* (strong uptrend), price > ma50 (uptrend), price < ma50 < ma200 (strong
\* downtrend), price < ma50 (downtrend), else sideways; a record with neither
\* moving average is labelled sideways whatever its price.
C18_MovingAverageLabel ==
    ScoredToken =>
        LET t == scoreIn.token
            label == scoreOut[1].indicators.movingAverages
        IN  /\ t.price # None =>
                  label = C18_Expected(t.price[1], C18_Average(t.ma50, t.price[1]),
                                       C18_Average(t.ma200, t.price[1]))
            /\ (t.ma50 = None /\ t.ma200 = None) => label = "sideways"

\* a record with a positive price and no moving average has been labelled
C18_Witness ==
    /\ ScoredToken
    /\ scoreIn.token.price # None
    /\ scoreIn.token.price[1] > 0
    /\ scoreIn.token.ma50 = None
    /\ scoreIn.token.ma200 = None
    /\ scoreOut[1].indicators.movingAverages = "sideways"

\* C19: a recomputation leaves the fetched batch as the provider returned it:
\* the fields of every record and the order of the records are unchanged.
C19_FetchedBatchUnchanged ==
    ScoredAnalysis => scoreOut[1].marketDataAfter = scoreIn.batch

\* the elements of a sequence
C11_Range(q) == {q[i] : i \in DOMAIN q}
C11_Losers(batch) ==
    {i \in DOMAIN batch :
        batch[i].percentChange24h # None /\ batch[i].percentChange24h[1] < -5 * Scale}
C11_Gainers(batch) ==
    {i \in DOMAIN batch :
        batch[i].percentChange24h # None /\ batch[i].percentChange24h[1] > 5 * Scale}
\* strictly more than 60% of the records of the batch
C11_Over60(S, batch) == 10 * Cardinality(S) > 6 * Len(batch)

\* C11: the short-term trends of a batch include "Market-wide correction"
\* exactly when strictly more than 60% of its records have a 24h change below
\* -5, and "Broad market rally" exactly when strictly more than 60% have one
\* above 5; a batch of which exactly 60% lost more than 5% has no correction,
\* and the batch SOL +6 / BTC +1 / ETH -7 has neither.
C11_BreadthTrends ==
    ScoredBatch =>
        LET batch == scoreIn.batch
            shortTerm == C11_Range(scoreOut[1].trends.shortTerm)
        IN  /\ "Market-wide correction" \in shortTerm <=> C11_Over60(C11_Losers(batch), batch)
            /\ "Broad market rally" \in shortTerm <=> C11_Over60(C11_Gainers(batch), batch)
            /\ 10 * Cardinality(C11_Losers(batch)) = 6 * Len(batch)
                   => "Market-wide correction" \notin shortTerm
            /\ batch = ScenarioBatch
                   => shortTerm \cap {"Market-wide correction", "Broad market rally"} = {}

\* a scored batch of five records of which exactly three lost more than 5%
C11_Witness ==
    /\ ScoredBatch
    /\ Len(scoreIn.batch) = 5
    /\ Cardinality(C11_Losers(scoreIn.batch)) = 3
    /\ "Market-wide correction" \notin C11_Range(scoreOut[1].trends.shortTerm)

\* ------------------------------------------- properties of the orchestration
\* the queries enumerated that contain a market keyword in some letter case
MarketQueries ==
    {<<"P", "R", "I", "C", "E">>,
     <<"M", "a", "r", "k", "e", "t", "s">>,
     <<"t", "r", "e", "n", "d", "y">>,
     <<"A", "n", "a", "l", "y", "s", "i", "s">>,
     <<"M", "O", "V", "E", "M", "E", "N", "T">>}

C12_Market == <<"Show detailed market analysis", "Compare with other tokens", "Check historical trends">>
C12_Wallet ==
    <<"Check my portfolio performance", "Show my transaction history", "Analyze my trading patterns">>
C12_Educational(level) ==
    IF level = <<"beginner">> THEN <<"Explain blockchain basics">>
    ELSE IF level = <<"advanced">> THEN <<"Show advanced trading metrics">>
    ELSE <<>>
C12_FirstThree(q) == [i \in 1..(IF Len(q) < 3 THEN Len(q) ELSE 3) |-> q[i]]

\* C12: generateSuggestions returns at most 3 strings, the first 3 of the
\* market suggestions (query with a market keyword), then the wallet
\* suggestions (wallet connected), then one educational suggestion (beginner
\* or advanced); a market query of a wallet-connected beginner gets exactly the
\* 3 market suggestions.
C12_SuggestionList ==
    query.pc = "suggested" =>
        LET all == (IF query.text \in MarketQueries THEN C12_Market ELSE <<>>)
                       \o (IF query.walletConnected THEN C12_Wallet ELSE <<>>)
                       \o C12_Educational(query.expertiseLevel)
        IN  /\ Len(reply[1]) <= 3
            /\ reply[1] = C12_FirstThree(all)
            /\ (query.text \in MarketQueries /\ query.walletConnected
                   /\ query.expertiseLevel = <<"beginner">>)
               => reply[1] = C12_Market

\* the suggestions of a market query of a wallet-connected beginner
C12_Witness ==
    /\ query.pc = "suggested"
    /\ query.text = <<"P", "R", "I", "C", "E">>
    /\ query.walletConnected
    /\ query.expertiseLevel = <<"beginner">>
    /\ reply = <<C12_Market>>

\* an invocation of generateEnhancedResponse has ended
Replied == query.pc = "done" /\ reply # None

C13_Apology ==
    [message |-> <<"I encountered an error processing your request. Let me try a different approach - what specifically would you like to know?">>,
     suggestions |-> <<<<"Check market trends", "Analyze token performance", "View wallet stats">>>>]

\* C13: processQuery never fails towards its caller: when enrichContext, the
\* completion request or enhanceResponse (a failing recomputation of the
\* market analysis included) raises, it returns the fixed apology with the
\* three static suggestions and no intent; it requests at most one completion;
\* generateEnhancedResponse always returns a message and never throws.
C13_NeverFails ==
    /\ query.llmCalls <= 1
    /\ Replied =>
          /\ ~reply[1].grok.threw
          /\ reply[1].llmCalls <= 1
          /\ reply[1].raised # "none" =>
                /\ reply[1].grok.message = C13_Apology.message
                /\ reply[1].grok.suggestions = C13_Apology.suggestions
                /\ reply[1].grok.intent = None
          /\ ~reply[1].out.threw
          /\ reply[1].out.message # None

\* the recomputation of the market analysis failed under a market-related
\* query whose completion had been received
C13_Witness ==
    /\ Replied
    /\ reply[1].raised = "enhanceResponse"
    /\ query.text \in MarketQueries
    /\ lastOutcome.kind = "failed"
    /\ reply[1].llmCalls = 1

\* --------------------------------------------------- properties of the cache
FiveMinutes == 5 * 60 * 1000
CacheSet == cachedAnalysis # None /\ lastUpdate # None
Age == now - lastUpdate[1]
Fresh == CacheSet /\ Age <= FiveMinutes

\* steps, told by what they change
StartsFetch(c) == call[c].pc = "idle" /\ call'[c].pc = "fetching"
ReturnsHit == lastOutcome' # lastOutcome /\ lastOutcome'.kind = "hit"
Stores == writes' # writes
Raises(c) == call[c].pc # "idle" /\ call'[c].pc = "idle" /\ writes' = writes

\* the objects generateMarketAnalysis returns on the responses of the provider
CompleteResults ==
    {generateMarketAnalysis(r.marketData, r.sentiment).analysis[1] :
        r \in {x \in ProviderResponses : x.marketData # <<>>}}

\* C1: while a snapshot is cached and at most 5 minutes old no call starts a
\* provider fetch, and a call returns the cached object itself and leaves the
\* cache as it is; a call answered from the cache returns the very object the
\* call that returned before it returned; after a recomputation has been
\* stored, no fetch is started before the clock advances.
C1_CacheHit ==
    [][ /\ Fresh => (fetches' = fetches /\ \A c \in Callers : ~StartsFetch(c))
        /\ ReturnsHit =>
              /\ Fresh
              /\ lastOutcome'.result = cachedAnalysis
              /\ UNCHANGED <<cachedAnalysis, lastUpdate, fetches, writes>>
              /\ lastOutcome.kind \in {"hit", "refreshed"}
                 => lastOutcome'.result = lastOutcome.result
        /\ (lastStore # None /\ lastStore[1].at = now) => fetches' = fetches
      ]_vars

\* a call answered from the cache right after the one recomputation, the clock
\* not having moved
C1_Witness ==
    /\ lastOutcome.kind = "hit"
    /\ lastStore # None /\ lastStore[1].at = now
    /\ lastOutcome.result = cachedAnalysis
    /\ fetches = 1

\* C2: a call that finds the cached snapshot older than 5 minutes starts
\* exactly one fetch round and is not answered from the cache; when it ends,
\* no other call having stored meanwhile, it has stored a new snapshot once and
\* lastUpdate is later than before; at an age of exactly 5 minutes no fetch
\* starts; and nothing but the start of a call's recomputation fetches.
C2_CacheRefresh ==
    [][ /\ (CacheSet /\ Age > FiveMinutes) => ~ReturnsHit
        /\ \A c \in Callers : StartsFetch(c) =>
              /\ fetches' = fetches + 1
              /\ CacheSet => Age > FiveMinutes
        /\ fetches' # fetches => \E c \in Callers : StartsFetch(c)
        /\ (CacheSet /\ Age = FiveMinutes) => fetches' = fetches
        /\ (Stores /\ lastOutcome'.undisturbed /\ CacheSet) =>
              /\ writes' = writes + 1
              /\ lastUpdate' # None /\ lastUpdate'[1] > lastUpdate[1]
              /\ cachedAnalysis' # cachedAnalysis
              /\ cachedAnalysis' = lastOutcome'.result
      ]_vars

\* the second recomputation of a run, stored after the first snapshot expired
C2_Witness ==
    /\ lastOutcome.kind = "refreshed" /\ lastOutcome.undisturbed
    /\ fetches = 2 /\ writes = 2
    /\ lastUpdate = Some(FiveMinutes + 1)
    /\ lastOutcome.checkedAt = FiveMinutes + 1

\* C3: a call whose recomputation fails raises: it returns no snapshot, starts
\* no further fetch and leaves cachedAnalysis and lastUpdate as they are, which
\* nothing but the assignments of a call that ends well changes; after it,
\* unless another call has stored meanwhile, the cache is still empty or stale,
\* so the next call recomputes.
C3_RecomputationFailure ==
    /\ [][ /\ \A c \in Callers : Raises(c) =>
                 /\ UNCHANGED <<cachedAnalysis, lastUpdate, fetches>>
                 /\ lastOutcome'.kind = "failed"
                 /\ lastOutcome'.result = None
           /\ (cachedAnalysis' # cachedAnalysis \/ lastUpdate' # lastUpdate) => Stores
         ]_vars
    /\ []((lastOutcome.kind = "failed" /\ lastOutcome.undisturbed) => ~Fresh)

\* a recomputation failed while a stale snapshot was cached
C3_Witness ==
    /\ lastOutcome.kind = "failed" /\ lastOutcome.undisturbed
    /\ CacheSet /\ Age > FiveMinutes

\* C4: in every state, those in which calls are in flight included,
\* cachedAnalysis and lastUpdate are both unset or both set, the cached object
\* is the whole result of one recomputation, and lastUpdate is the time written
\* with that object.
C4_AtomicReplacement ==
    /\ (cachedAnalysis = None) <=> (lastUpdate = None)
    /\ cachedAnalysis # None =>
          /\ cachedAnalysis[1].value \in CompleteResults
          /\ lastStore = Some([ref |-> cachedAnalysis[1].ref, at |-> lastUpdate[1]])

\* two overlapping recomputations have stored, the one that started first last
C4_Witness ==
    /\ writes = 2 /\ CacheSet
    /\ cachedAnalysis[1].ref = 1
    /\ lastOutcome.kind = "refreshed" /\ ~lastOutcome.undisturbed

\* C5: a call is answered without a fetch only when the cache is fresh, however
\* many recomputations are in flight; the recomputations in flight are distinct
\* fetch rounds, and each one that ends well overwrites the cache with its own
\* result.
C5_NoDeduplication ==
    /\ [][ /\ ReturnsHit => Fresh
           /\ \A c \in Callers : StartsFetch(c) =>
                 /\ fetches' = fetches + 1
                 /\ call'[c].comp = fetches'
           /\ \A c \in Callers : (Stores /\ call[c].pc = "scoring" /\ call'[c].pc = "idle") =>
                 /\ writes' = writes + 1
                 /\ cachedAnalysis' # None /\ cachedAnalysis'[1].ref = call[c].comp
         ]_vars
    /\ [](/\ \A c, d \in InFlight : c # d => call[c].comp # call[d].comp
          /\ Cardinality(InFlight) + writes <= fetches)

\* every caller called at time 0 before any recomputation ended, and each has
\* fetched and stored
C5_Witness ==
    /\ now = 0
    /\ fetches = NumCallers
    /\ writes = NumCallers

\* C6: every snapshot returned is the whole result of one recomputation, and
\* its lastUpdate is at most 5 minutes before the caller's freshness check.
C6_BoundedStaleness ==
    lastOutcome.kind \in {"hit", "refreshed"} =>
        /\ lastOutcome.result # None
        /\ lastOutcome.result[1].value \in CompleteResults
        /\ lastOutcome.resultStamp # None
        /\ lastOutcome.checkedAt - lastOutcome.resultStamp[1] <= FiveMinutes

\* a snapshot exactly 5 minutes old returned while another call is in flight
C6_Witness ==
    /\ lastOutcome.kind = "hit"
    /\ lastOutcome.resultStamp # None
    /\ lastOutcome.checkedAt - lastOutcome.resultStamp[1] = FiveMinutes
    /\ InFlight # {}

\* C20: when recomputations overlap the cache never goes backwards: the
\* snapshot of a recomputation that started its fetches later is never
\* overwritten by the snapshot of one that started earlier, and no assignment
\* gives older provider data a later lastUpdate than newer data already stored.
C20_MonotoneCache ==
    [][(Stores /\ cachedAnalysis # None) =>
          /\ cachedAnalysis'[1].ref >= cachedAnalysis[1].ref
          /\ cachedAnalysis'[1].ref < cachedAnalysis[1].ref => lastUpdate'[1] <= lastUpdate[1]]_vars

\* ------------------------------------- the orchestration and the cache
\* a completion was received by the invocation that ended
CompletionReceived == Replied /\ reply[1].raised \in {"none", "enhanceResponse"}
\* the reply of processQuery carries exactly the object the cache holds
CarriesCached ==
    /\ reply[1].grok.analysis # None
    /\ cachedAnalysis # None
    /\ reply[1].grok.analysis[1].marketContext = cachedAnalysis[1]
\* a step of an invocation in progress whose query has no market keyword
\* leaves the cache alone, and one that starts provider fetches for the
\* analysis does so on a cache that is not fresh
CacheUse ==
    /\ (query.pc \notin {"idle", "done"} /\ query.text \notin MarketQueries)
           => UNCHANGED <<lastUpdate, cachedAnalysis, call, lastOutcome, fetches, writes>>
    /\ fetches' # fetches => ~Fresh

\* C14 as stated: once the completion has been received, the reply of
\* processQuery carries the cached market analysis exactly when the query
\* contains a market keyword in some letter case.
C14_AnalysisIffKeyword ==
    CompletionReceived => (CarriesCached <=> query.text \in MarketQueries)

\* C14, amended: when processQuery ends without raising, its reply carries the
\* cached market analysis (obtained through getMarketAnalysis, recomputed only
\* if not fresh) exactly when the query contains a market keyword in some
\* letter case; when it raises, the analysis failing to recompute included,
\* the reply carries none; a query without a keyword never touches the cache.
C14_AnalysisOnSuccess ==
    /\ [](Replied =>
            IF reply[1].raised = "none"
            THEN CarriesCached <=> query.text \in MarketQueries
            ELSE reply[1].grok.analysis = None)
    /\ [][CacheUse]_vars

\* a query in upper case got the analysis of a recomputation it triggered
C14_Witness ==
    /\ Replied
    /\ reply[1].raised = "none"
    /\ query.text = <<"P", "R", "I", "C", "E">>
    /\ CarriesCached
    /\ lastOutcome.kind = "refreshed"

\* -------------------------------------------- properties of the chat component
InFlightSends == {r \in 1..MaxSends : send[r].pc # "idle"}
\* the inputs enumerated that contain an advanced / an intermediate term:
\* "MEV", "nft amm" / "Swap 1 SOL", "nft amm"
AdvancedInputs == {<<"M", "E", "V">>, <<"n", "f", "t", " ", "a", "m", "m">>}
IntermediateInputs ==
    {<<"S", "w", "a", "p", " ", "1", " ", "S", "O", "L">>, <<"n", "f", "t", " ", "a", "m", "m">>}
UserSaid(msgs, S) == \E i \in DOMAIN msgs : msgs[i].role = "user" /\ msgs[i].content \in S
Rank(level) == CASE level = "advanced" -> 2 [] level = "intermediate" -> 1 [] OTHER -> 0

C16_Expected(msgs) ==
    IF UserSaid(msgs, AdvancedInputs) THEN "advanced"
    ELSE IF UserSaid(msgs, IntermediateInputs) THEN "intermediate"
    ELSE "beginner"

\* C16: determineUserExpertise returns advanced if a user message contains an
\* advanced term, else intermediate if a user message contains an
\* intermediate term, else beginner; assistant messages do not count and
\* advanced wins over intermediate; and while messages are only appended to
\* the conversation the level never decreases.
C16_ExpertiseClassification ==
    /\ [](\A r \in InFlightSends : send[r].expertiseLevel = C16_Expected(send[r].messages))
    /\ [][(Len(messages') > Len(messages) /\ SubSeq(messages', 1, Len(messages)) = messages)
            => Rank(determineUserExpertise(messages'))
                  >= Rank(determineUserExpertise(messages))]_vars

\* a level was computed from a conversation in which the user used an
\* intermediate term and the assistant an advanced one
C16_Witness ==
    \E r \in InFlightSends :
        /\ send[r].expertiseLevel = "intermediate"
        /\ \E i \in DOMAIN send[r].messages :
              /\ send[r].messages[i].role = "assistant"
              /\ send[r].messages[i].content =
                     <<"T", "r", "y", " ", "a", "n", " ", "A", "M", "M", ".">>

\* C17: the expertise level in the context of a request accounts for the
\* utterance being sent: an input with an advanced term is sent with level
\* advanced, one with an intermediate term with intermediate or advanced.
C17_LevelIncludesInput ==
    \A r \in InFlightSends :
        /\ send[r].input \in AdvancedInputs => send[r].expertiseLevel = "advanced"
        /\ send[r].input \in IntermediateInputs
              => send[r].expertiseLevel \in {"intermediate", "advanced"}

\* the intent lacks a field its type requires, or the wallet is not connected
C15_Invalid(intent, wallet) ==
    \/ ~wallet.connected
    \/ intent.type = "TRANSFER" /\ (intent.recipient = None \/ intent.amount = None)
    \/ intent.type = "SWAP" /\ (intent.fromToken = None \/ intent.toToken = None)
C15_Complete(intent) ==
    \/ intent.type = "TRANSFER" /\ intent.recipient # None /\ intent.amount # None
    \/ intent.type = "SWAP" /\ intent.fromToken # None /\ intent.toToken # None
C15_IsError(message) ==
    /\ message.role = "assistant"
    /\ Len(message.content) > 7
    /\ SubSeq(message.content, 1, 7) = <<"E", "r", "r", "o", "r", ":", " ">>
C15_Dialogs ==
    <<transferIntent, pendingSwapIntent, showTransactionConfirmation, isConfirmationOpen>>

\* C15: when handleAIResponse gets a TRANSFER intent without recipient or
\* amount, a SWAP intent without fromToken or toToken, or finds the wallet not
\* connected, it appends an error message and leaves transferIntent,
\* pendingSwapIntent and both confirmation flags unchanged; an intent is
\* stored, or a confirmation opened, only with the wallet connected and the
\* fields of the intent present.
C15_IntentValidation ==
    [][(handled' # None /\ messages' # messages) =>
          LET intent == handled'[1].intent
              wallet == handled'[1].wallet
          IN  /\ C15_Invalid(intent, wallet) =>
                    /\ C15_IsError(messages'[Len(messages')])
                    /\ UNCHANGED C15_Dialogs
              /\ ~(UNCHANGED C15_Dialogs) => wallet.connected /\ C15_Complete(intent)
              /\ (wallet.connected /\ wallet.publicKey # None /\ C15_Complete(intent)
                     /\ intent.recipient # <<"">>)
                 => IF intent.type = "TRANSFER"
                    THEN transferIntent' = <<intent>> /\ showTransactionConfirmation'
                    ELSE pendingSwapIntent' = <<intent>> /\ isConfirmationOpen']_vars

\* a TRANSFER intent without recipient was handled with the wallet connected
C15_Witness ==
    /\ handled # None
    /\ handled[1].intent.type = "TRANSFER"
    /\ handled[1].intent.recipient = None
    /\ handled[1].wallet.connected
    /\ handled[1].wallet.publicKey # None
    /\ C15_IsError(messages[Len(messages)])
    /\ transferIntent = None
    /\ ~showTransactionConfirmation

\* C21: isProcessing is true whenever a handleSendMessage request is in
\* flight, and at most one request is in flight at any time, whether the sends
\* come from the send button or from the Enter key.
C21_SingleRequestInFlight ==
    /\ InFlightSends # {} => isProcessing
    /\ Cardinality(InFlightSends) <= 1

\* an input that input.trim() empties
C22_Blank(text) == \A i \in DOMAIN text : text[i] = " "
C22_Starts(r) == send[r].pc = "idle" /\ send'[r].pc # "idle"
C22_Ends(r) == send[r].pc # "idle" /\ send'[r].pc = "idle"
C22_Replies == {m.message : m \in AIResponses \cup IntentResponses} \cup {GenericError}
\* the messages appended by the step
C22_Appended ==
    IF Len(messages') >= Len(messages) /\ SubSeq(messages', 1, Len(messages)) = messages
    THEN SubSeq(messages', Len(messages) + 1, Len(messages'))
    ELSE <<[role |-> "none", content |-> <<>>]>>

\* C22: a handleSendMessage call with non-blank input appends exactly one user
\* message (its input) when it starts and exactly one assistant message for
\* the reply (the model's message or the generic error message) when it ends,
\* nothing in between; the step that ends it, in success or failure, sets
\* isProcessing to false, and every call reaches that step; a call with blank input
\* changes no state, so no call in flight has a blank input.
C22_SendAppendsUserThenReply ==
    /\ [][\A r \in 1..MaxSends :
            /\ C22_Starts(r) =>
                  /\ ~C22_Blank(send'[r].input)
                  /\ C22_Appended = <<[role |-> "user", content |-> send'[r].input]>>
                  /\ isProcessing'
            /\ (send[r].pc # "idle" /\ send'[r].pc # "idle" /\ send'[r] # send[r]) =>
                  messages' = messages
            /\ C22_Ends(r) =>
                  /\ Len(C22_Appended) >= 1
                  /\ C22_Appended[1].role = "assistant"
                  /\ C22_Appended[1].content \in C22_Replies
                  /\ \A i \in 2..Len(C22_Appended) :
                        /\ handled' # None
                        /\ i = 2
                        /\ C22_Appended[i].role = "assistant"
                        /\ C22_Appended[i].content \notin C22_Replies
                  /\ ~isProcessing']_vars
    /\ [][messages' # messages =>
            \/ \E r \in 1..MaxSends : C22_Starts(r) \/ C22_Ends(r)
            \/ messages' = InitialMessages]_vars
    /\ \A r \in 1..MaxSends : (send[r].pc # "idle") ~> (send[r].pc = "idle")

\* a call has ended in success after an intent and one in failure: the list
\* holds the user message, the reply and the generic error message
C22_Witness ==
    /\ InFlightSends = {}
    /\ ~isProcessing
    /\ \E i, j \in DOMAIN messages :
          /\ i < j
          /\ messages[i].role = "user"
          /\ messages[j] = [role |-> "assistant", content |-> <<"D", "o", "n", "e", ".">>]
    /\ \E i \in DOMAIN messages : messages[i].content = GenericError

Succeeded == {c \in 1..MaxConfirms : confirm[c].pc = "succeeded"}

Announcements ==
    {i \in DOMAIN messages : includes(messages[i].content, CryptocurrencyPrices)}

\* C24: the message list never holds more than one market-data capability
\* announcement (a message containing "cryptocurrency prices"), whatever the
\* interleaving of the market-data effect, its delayed append and the other
\* appends that re-run the effect during the delay.
C24_AnnouncedAtMostOnce == Cardinality(Announcements) <= 1

====
